---------------------------- MODULE Spec2Model ----------------------------
(***************************************************************************)
(* Verification model of the slatedb-nbd benchmark harness: the running    *)
(* statistics (stats.py), and the comparison pass of the bench command     *)
(* (cli.py).                                                               *)
(*                                                                         *)
(* Numbers.  A number is an exact rational <<n, d>> in lowest terms with   *)
(* d > 0; Python's None is the empty tuple, so that it can be compared     *)
(* with a number.  Floating-point rounding is not modelled: the arithmetic *)
(* of push and variance is carried out exactly.                            *)
(*                                                                         *)
(* Logarithms.  The values pushed into RunningGeometricStats are powers of *)
(* two, 2^e.  math.log(2^e) = e * ln 2 is carried as the rational e, in    *)
(* units of ln 2, and math.exp(q * ln 2) = 2^q as <<"pow2", n, d>> with    *)
(* q = n/d.  push is homogeneous, so inner.mean is in units of ln 2 and    *)
(* inner.S in units of (ln 2)^2.                                           *)
(***************************************************************************)
EXTENDS Integers, Sequences, FiniteSets, TLC

VARIABLES
    rs,        \* a RunningStats instance
    xs,        \* the values pushed into rs so far, in order
    g,         \* a RunningGeometricStats instance
    gxs,       \* the values pushed into g by calls that returned normally
    exc,       \* how the last call on g ended: "none" or the exception raised
    arg,       \* the argument of the last call of g.push
    args,      \* the option lists of the bench command (drivers, compression, connections)
    results,   \* the results list of the bench command
    cpc,       \* where the bench command is: "idle", "loop", then the pass that ran
    report     \* what the compare calls of the pass did, one record per call

VARIABLES
    bencher,   \* a Bencher instance
    scopes,    \* the open bench(label) scopes of bencher, outermost first
    clock,     \* the last reading of time.perf_counter()
    bexc,      \* the exception in flight inside the scopes, or "none"
    closed     \* for each sample of bencher, the scope that produced it

VARIABLES
    mxArgs,    \* the dimension lists get_text_matrix was called with
    gen,       \* the generator object the call returned
    pass1,     \* the records a first `for` over gen received
    pass2,     \* the records a second `for` over the same gen received
    mpc        \* "idle", then "pass1", "pass2", "done"

VARIABLES
    variant,     \* the entry point that runs: "main", "cli", "bench" or "driver"
    todo,        \* the configuration records it iterates, in order
    ri,          \* how many records the loop has taken so far
    stack,       \* the contexts entered on the ExitStack of the current run
    ei,          \* how many contexts of the run's plan have been entered
    step,        \* how many workload steps of the run have completed
    events,      \* acquisitions and teardowns of the current run, in order
    rbench,      \* the samples of the Bencher of the current run
    err,         \* the exception in flight, or NoErr
    rpc,         \* "idle", "next", "enter", "work", "unwind", "raised", "end"
    runResults,  \* the results list of the command
    live,        \* the resources that exist, each with the run that acquired it
    wd           \* the working directory of the process, and what the run did to it

VARIABLES
    opts,        \* the options of the bench command: drivers, test_folder
    environ,     \* os.environ: for each required key "absent", "empty" or "set"
    spc,         \* where the bench command is, from "start" to "done"
    effects,     \* what the command has done to the outside, in order
    serr,        \* the exception that ended the command, or "none"
    taken        \* how many records the loop of the command has taken

VARIABLES
    pin,         \* the call of a provisioning context manager: function, arguments
    inUse,       \* whether the device or the process it provides is in use
    ppc,         \* "idle", "check", "remediate", "build", "launch", "yield", ...
    cmds,        \* the commands the call has run, in order
    perr,        \* the exception the call raised, or "none"
    registered   \* whether the ExitStack holds the exit of the context manager

VARIABLES
    listHeap,    \* the list objects of the heap, by address
    statsHeap,   \* the RunningStats objects of the heap, by address
    loopBencher, \* the Bencher of the run in progress (its results: an address), or None
    resultRefs,  \* the results list: for each RunResult the address of its "tests"
    pushedIn,    \* for each run, the samples pushed during it, in order
    accs,        \* the RunningGeometricStats objects made (inner: an address)
    opc          \* "idle", "loop" (the matrix loop) or "report" (the passes)

VARIABLES
    tpc,         \* bench_trim: "idle", "start", "poll", "returned" or "raised"
    attempt,     \* how many times bench_trim has read the pool status
    status,      \* the output of the last status read, or None
    trecorded,   \* the labels the bench scopes of the call have recorded
    terr         \* the exception the call raised, or "none"

VARIABLES
    dpc,         \* maybe_download_file: "idle", "start", "fetched", "returned", "raised"
    din,         \* the arguments of the call and what the server would answer
    tempdir,     \* the files of the temporary directory: name -> content
    response,    \* the response httpx.get returned, or NoResponse
    requests,    \* how many requests the call has sent
    hashed,      \* the contents the call has computed a SHA-256 of
    dout         \* the path returned or the exception raised, or NoOutcome

statsVars == <<rs, xs>>
geoVars == <<g, gxs, exc, arg>>
cmpVars == <<args, results, cpc, report>>
benchVars == <<bencher, scopes, clock, bexc, closed>>
mxVars == <<mxArgs, gen, pass1, pass2, mpc>>
runVars ==
    <<variant, todo, ri, stack, ei, step, events, rbench, err, rpc, runResults,
      live, wd>>
startVars == <<opts, environ, spc, effects, serr, taken>>
provVars == <<pin, inUse, ppc, cmds, perr, registered>>
ownVars == <<listHeap, statsHeap, loopBencher, resultRefs, pushedIn, accs, opc>>
trimVars == <<tpc, attempt, status, trecorded, terr>>
dlVars == <<dpc, din, tempdir, response, requests, hashed, dout>>
lateVars == <<trimVars, dlVars>>
moreVars == <<startVars, provVars, ownVars, lateVars>>
extVars == <<benchVars, mxVars, runVars, moreVars>>
vars == <<rs, xs, g, gxs, exc, arg, args, results, cpc, report, extVars>>

\* the parts of the harness a specification does not exercise stay idle
BencherIdle ==
    /\ bencher = [results |-> <<>>] /\ scopes = <<>> /\ clock = 0
    /\ bexc = "none" /\ closed = <<>>
MatrixIdle ==
    /\ mxArgs = <<>> /\ gen = <<>> /\ pass1 = <<>> /\ pass2 = <<>>
    /\ mpc = "idle"
NoErr == [exc |-> "none", at |-> "none"]
RunIdle ==
    /\ variant = "none" /\ todo = <<>> /\ ri = 0 /\ stack = <<>> /\ ei = 0
    /\ step = 0 /\ events = <<>> /\ rbench = <<>> /\ err = NoErr
    /\ rpc = "idle" /\ runResults = <<>> /\ live = <<>> /\ wd = <<>>
StartIdle ==
    /\ opts = <<>> /\ environ = <<>> /\ spc = "idle" /\ effects = <<>>
    /\ serr = "none" /\ taken = 0
ProvIdle ==
    /\ pin = <<>> /\ inUse = FALSE /\ ppc = "idle" /\ cmds = <<>>
    /\ perr = "none" /\ registered = FALSE
OwnIdle ==
    /\ listHeap = <<>> /\ statsHeap = <<>> /\ loopBencher = <<>>
    /\ resultRefs = <<>>
    /\ pushedIn = <<>> /\ accs = <<>> /\ opc = "idle"
TrimIdle ==
    /\ tpc = "idle" /\ attempt = 0 /\ status = <<>> /\ trecorded = <<>>
    /\ terr = "none"
NoResponse == [status_code |-> 0, content |-> ""]
NoOutcome == [exc |-> "none", val |-> ""]
DlIdle ==
    /\ dpc = "idle" /\ din = <<>> /\ tempdir = <<>> /\ response = NoResponse
    /\ requests = 0 /\ hashed = <<>> /\ dout = NoOutcome
LateIdle == TrimIdle /\ DlIdle
MoreIdle == StartIdle /\ ProvIdle /\ OwnIdle /\ LateIdle
ExtIdle == BencherIdle /\ MatrixIdle /\ RunIdle /\ MoreIdle

(***************************************************************************)
(* Bounds of the model.                                                    *)
(***************************************************************************)
MaxPush == 4
MaxVal == 2
MaxExp == 2
MaxRuns == 3

None == <<>>

(***************************************************************************)
(* Exact rational arithmetic.                                              *)
(***************************************************************************)
Abs(n) == IF n < 0 THEN -n ELSE n

RECURSIVE Gcd(_, _)
Gcd(a, b) == IF b = 0 THEN a ELSE Gcd(b, a % b)

Q(n, d) ==
    LET s == IF d < 0 THEN -1 ELSE 1
        c == Gcd(Abs(n), Abs(d))
    IN <<(s * n) \div c, (s * d) \div c>>

QInt(n) == <<n, 1>>
QAdd(a, b) == Q(a[1] * b[2] + b[1] * a[2], a[2] * b[2])
QSub(a, b) == Q(a[1] * b[2] - b[1] * a[2], a[2] * b[2])
QMul(a, b) == Q(a[1] * b[1], a[2] * b[2])
\* division by a non-zero number
QDiv(a, b) == Q(a[1] * b[2], a[2] * b[1])
QLe(a, b) == a[1] * b[2] <= b[1] * a[2]
QLt(a, b) == a[1] * b[2] < b[1] * a[2]
Zero == QInt(0)

(***************************************************************************)
(* class RunningStats                                                      *)
(***************************************************************************)
\* a mutant of the constructor: the mean starts at 0 instead of None
RunningStats_new_mean0 == [mean |-> Zero, S |-> Zero, k |-> 0]

\* the dataclass defaults: mean = None, S = 0, k = 0
RunningStats_new == [mean |-> None, S |-> Zero, k |-> 0]

\* a mutant of push: the running mean is advanced by delta / (k + 1)
RunningStats_push_skew(self, x) ==
    LET k1 == self.k + 1 IN
    IF self.mean = None
    THEN [self EXCEPT !.k = k1, !.mean = x]
    ELSE LET delta == QSub(x, self.mean)
             mean1 == QAdd(self.mean, QDiv(delta, QInt(k1 + 1)))
         IN [k |-> k1, mean |-> mean1,
             S |-> QAdd(self.S, QMul(delta, QSub(x, mean1)))]

\* a mutant of push: S accumulates delta * delta
RunningStats_push_naive(self, x) ==
    LET k1 == self.k + 1 IN
    IF self.mean = None
    THEN [self EXCEPT !.k = k1, !.mean = x]
    ELSE LET delta == QSub(x, self.mean)
             mean1 == QAdd(self.mean, QDiv(delta, QInt(k1)))
         IN [k |-> k1, mean |-> mean1,
             S |-> QAdd(self.S, QMul(delta, delta))]

\* a mutant of push: S accumulates delta * (mean - x), with the new mean
RunningStats_push_swapped(self, x) ==
    LET k1 == self.k + 1 IN
    IF self.mean = None
    THEN [self EXCEPT !.k = k1, !.mean = x]
    ELSE LET delta == QSub(x, self.mean)
             mean1 == QAdd(self.mean, QDiv(delta, QInt(k1)))
         IN [k |-> k1, mean |-> mean1,
             S |-> QAdd(self.S, QMul(delta, QSub(mean1, x)))]

\* RunningStats.push: returns the instance after the call
RunningStats_push(self, x) ==
    LET k1 == self.k + 1 IN
    IF self.mean = None
    THEN [self EXCEPT !.k = k1, !.mean = x]
    ELSE LET delta == QSub(x, self.mean)
             mean1 == QAdd(self.mean, QDiv(delta, QInt(k1)))
         IN [k |-> k1, mean |-> mean1,
             S |-> QAdd(self.S, QMul(delta, QSub(x, mean1)))]

\* the outcome of a property read: the value returned, or the exception
Returned(v) == [exc |-> "none", val |-> v]
Raised(e) == [exc |-> e, val |-> None]

\* Python's true division of numbers
TrueDiv(a, b) ==
    IF b[1] = 0 THEN Raised("ZeroDivisionError") ELSE Returned(QDiv(a, b))

\* a mutant of variance: the k > 1 guard is dropped
RunningStats_variance_unguarded(self) == TrueDiv(self.S, QInt(self.k - 1))

\* a mutant of variance: the population variance S / k
RunningStats_variance_population(self) ==
    IF self.k > 1 THEN TrueDiv(self.S, QInt(self.k)) ELSE Returned(Zero)

\* RunningStats.variance
RunningStats_variance(self) ==
    IF self.k > 1 THEN TrueDiv(self.S, QInt(self.k - 1)) ELSE Returned(Zero)

\* math.sqrt: the exact root of a square, the symbol <<"sqrt", n, d>> for
\* the irrational root of n/d, ValueError for a negative argument
IsSquare(n) == \E r \in 0..n : r * r = n
ISqrt(n) == CHOOSE r \in 0..n : r * r = n
math_sqrt(v) ==
    IF v[1] < 0 THEN Raised("ValueError")
    ELSE IF IsSquare(v[1]) /\ IsSquare(v[2])
         THEN Returned(<<ISqrt(v[1]), ISqrt(v[2])>>)
         ELSE Returned(<<"sqrt", v[1], v[2]>>)

\* RunningStats.standard_deviation
RunningStats_standard_deviation(self) ==
    LET v == RunningStats_variance(self) IN
    IF v.exc # "none" THEN v ELSE math_sqrt(v.val)

(***************************************************************************)
(* math.log and math.exp on powers of two                                  *)
(***************************************************************************)
RECURSIVE TwoTo(_)
TwoTo(e) == IF e = 0 THEN 1 ELSE 2 * TwoTo(e - 1)

\* the number 2^e, e an integer
Pow2Q(e) == IF e >= 0 THEN <<TwoTo(e), 1>> ELSE <<1, TwoTo(-e)>>

RECURSIVE Log2(_)
Log2(x) ==
    IF x[1] = x[2] THEN 0
    ELSE IF x[1] > x[2] THEN 1 + Log2(Q(x[1], 2 * x[2]))
    ELSE Log2(Q(2 * x[1], x[2])) - 1

\* math.log(x), in units of ln 2; "math domain error" for x <= 0
math_log(x) ==
    IF x[1] <= 0 THEN Raised("ValueError") ELSE Returned(QInt(Log2(x)))

\* math.exp(v), v in units of ln 2: 2^(n/d), or 2^sqrt(n/d) for a symbolic root
math_exp(v) ==
    IF Len(v) = 2 THEN <<"pow2", v[1], v[2]>> ELSE <<"pow2sqrt", v[2], v[3]>>

(***************************************************************************)
(* class RunningGeometricStats                                             *)
(***************************************************************************)
\* field(default_factory=RunningStats)
RunningGeometricStats_new == [inner |-> RunningStats_new]

\* the outcome of a method call: the instance after it, and the exception
Done(self) == [exc |-> "none", self |-> self]
Failed(self, e) == [exc |-> e, self |-> self]

\* a mutant of push: a non-positive value is clamped to 1 instead of rejected
RunningGeometricStats_push_clamp(self, x) ==
    LET l == math_log(IF x[1] <= 0 THEN QInt(1) ELSE x) IN
    Done([self EXCEPT !.inner = RunningStats_push(self.inner, l.val)])

\* a mutant of push: the value itself is forwarded, not its logarithm
RunningGeometricStats_push_linear(self, x) ==
    LET l == math_log(x) IN
    IF l.exc # "none" THEN Failed(self, l.exc)
    ELSE Done([self EXCEPT !.inner = RunningStats_push(self.inner, x)])

\* RunningGeometricStats.push: math.log(x) is evaluated before inner.push runs
RunningGeometricStats_push(self, x) ==
    LET l == math_log(x) IN
    IF l.exc # "none" THEN Failed(self, l.exc)
    ELSE Done([self EXCEPT !.inner = RunningStats_push(self.inner, l.val)])

\* RunningGeometricStats.mean
RunningGeometricStats_mean(self) ==
    IF self.inner.mean = None THEN None ELSE math_exp(self.inner.mean)

\* RunningGeometricStats.standard_deviation
RunningGeometricStats_standard_deviation(self) ==
    LET sd == RunningStats_standard_deviation(self.inner) IN
    IF sd.exc # "none" THEN sd ELSE Returned(math_exp(sd.val))

(***************************************************************************)
(* The accumulators driven by arbitrary pushes.                            *)
(***************************************************************************)
\* the values pushed into a RunningStats
Values == {QInt(v) : v \in -1..MaxVal}

\* the values pushed into a RunningGeometricStats: powers of two, 0 and -1
Positive == {Pow2Q(e) : e \in -1..MaxExp}
GValues == Positive \cup {QInt(0), QInt(-1)}

StatsIdle == rs = RunningStats_new /\ xs = <<>>
GeoIdle == g = RunningGeometricStats_new /\ gxs = <<>> /\ exc = "none" /\ arg = None

\* rs.push(x)
Push(x) ==
    /\ Len(xs) < MaxPush
    /\ rs' = RunningStats_push(rs, x)
    /\ xs' = Append(xs, x)
    /\ UNCHANGED <<geoVars, cmpVars, extVars>>

\* g.push(x); a call that raises leaves what the method left behind
GPush(x) ==
    /\ Len(gxs) < MaxPush
    /\ LET r == RunningGeometricStats_push(g, x) IN
        /\ g' = r.self
        /\ exc' = r.exc
        /\ gxs' = IF r.exc = "none" THEN Append(gxs, x) ELSE gxs
    /\ arg' = x
    /\ UNCHANGED <<statsVars, cmpVars, extVars>>

CompareIdle == args = <<>> /\ results = <<>> /\ cpc = "idle" /\ report = <<>>

StatsInit == StatsIdle /\ GeoIdle /\ CompareIdle /\ ExtIdle
StatsNext == \E x \in Values : Push(x)
SpecStats == StatsInit /\ [][StatsNext]_vars

GeoInit == StatsIdle /\ GeoIdle /\ CompareIdle /\ ExtIdle
GeoNext == \E x \in GValues : GPush(x)
SpecGeo == GeoInit /\ [][GeoNext]_vars

(***************************************************************************)
(* The textbook (batch) statistics the accumulators are compared with.     *)
(***************************************************************************)
RECURSIVE SumQ(_)
SumQ(s) == IF s = <<>> THEN Zero ELSE QAdd(s[1], SumQ(Tail(s)))

RECURSIVE ProductQ(_)
ProductQ(s) == IF s = <<>> THEN QInt(1) ELSE QMul(s[1], ProductQ(Tail(s)))

\* sum of the values divided by their number
BatchMean(s) == QDiv(SumQ(s), QInt(Len(s)))

\* two passes: the mean, then the squared deviations from it over n - 1
BatchVariance(s) ==
    LET m == BatchMean(s)
        dev == [i \in 1..Len(s) |-> QMul(QSub(s[i], m), QSub(s[i], m))]
    IN QDiv(SumQ(dev), QInt(Len(s) - 1))

\* a fresh RunningStats after pushing the values of s in order
RECURSIVE PushAll(_, _)
PushAll(self, s) ==
    IF s = <<>> THEN self ELSE PushAll(RunningStats_push(self, s[1]), Tail(s))

\* the permutations of 1..n, as sequences
RECURSIVE Perms(_)
Perms(S) ==
    IF S = {} THEN {<<>>}
    ELSE UNION {{<<i>> \o p : p \in Perms(S \ {i})} : i \in S}

Permuted(s, p) == [i \in 1..Len(s) |-> s[p[i]]]

(***************************************************************************)
(* Claims about RunningStats (specification SpecStats).                    *)
(***************************************************************************)
\* C1: after any sequence of pushes on a fresh accumulator, k is the number
\* of pushes and mean is the sum of the pushed values divided by k.
C1_MeanIsArithmeticMean ==
    /\ rs.k = Len(xs)
    /\ xs # <<>> => rs.mean = BatchMean(xs)

C1_Witness == Len(xs) >= 3 /\ rs.mean # None /\ rs.mean[2] # 1

\* C2: for at least two pushed values, variance (S / (k - 1), S updated
\* online) is the unbiased sample variance of the two-pass batch formula.
C2_VarianceIsSampleVariance ==
    Len(xs) >= 2 => RunningStats_variance(rs) = Returned(BatchVariance(xs))

C2_Witness ==
    /\ Len(xs) >= 3
    /\ RunningStats_variance(rs).exc = "none"
    /\ RunningStats_variance(rs).val[2] # 1

\* C5: pushing the same multiset of values in any permutation yields the
\* same final k, mean and variance.
C5_OrderIndependent ==
    \A p \in Perms(1..Len(xs)) :
        LET r == PushAll(RunningStats_new, Permuted(xs, p)) IN
        /\ r.k = rs.k
        /\ r.mean = rs.mean
        /\ RunningStats_variance(r) = RunningStats_variance(rs)

C5_Witness == Len(xs) >= 3 /\ xs[1] # xs[2] /\ xs[2] # xs[3] /\ xs[1] # xs[3]

\* C6: after exactly one push of v, mean = v and variance = 0, and reading
\* variance does not divide by k - 1 = 0.
C6_SingleValue ==
    Len(xs) = 1 =>
        /\ rs.mean = xs[1]
        /\ RunningStats_variance(rs) = Returned(Zero)

C6_Witness == Len(xs) = 1 /\ rs.k = 1 /\ xs[1] # Zero

\* C7: with no value pushed, mean is None, variance is 0, and reading
\* variance or standard_deviation does not raise.
C7_EmptyAccumulator ==
    xs = <<>> =>
        /\ rs.mean = None
        /\ RunningStats_variance(rs) = Returned(Zero)
        /\ RunningStats_standard_deviation(rs) = Returned(Zero)

C7_Witness ==
    /\ xs = <<>>
    /\ rs.k = 0
    /\ RunningStats_standard_deviation(rs).exc = "none"

(***************************************************************************)
(* Claims about RunningGeometricStats (specification SpecGeo).             *)
(***************************************************************************)
\* C3: push(x) with x <= 0 raises the domain error (ValueError) and leaves
\* inner.k, inner.mean and inner.S as they were before the call; nothing is
\* recorded.
C3_RejectedPushKeepsState ==
    [][arg'[1] <= 0 => exc' = "ValueError" /\ g' = g /\ gxs' = gxs]_vars

C3_Witness == Len(gxs) >= 1 /\ exc = "ValueError" /\ arg = QInt(-1)

\* the geometric mean of s by the batch formula exp(mean(ln(s)))
ExpMeanLog(s) ==
    math_exp(BatchMean([i \in 1..Len(s) |-> math_log(s[i]).val]))

\* v = 2^(n/d) raised to the k-th power is the rational number r
PowerIs(v, k, r) ==
    LET e == IF v = None THEN Zero ELSE QMul(<<v[2], v[3]>>, QInt(k)) IN
    v # None /\ v[1] = "pow2" /\ e[2] = 1 /\ Pow2Q(e[1]) = r

\* C4: for positive values pushed into a fresh RunningGeometricStats, mean
\* is exp(mean(ln(xs))), the n-th root of the product of xs; with nothing
\* pushed it is None.
C4_GeometricMean ==
    /\ gxs = <<>> => RunningGeometricStats_mean(g) = None
    /\ gxs # <<>> =>
        /\ RunningGeometricStats_mean(g) = ExpMeanLog(gxs)
        /\ PowerIs(RunningGeometricStats_mean(g), Len(gxs), ProductQ(gxs))

C4_Witness ==
    /\ Len(gxs) >= 3
    /\ RunningGeometricStats_mean(g) # None
    /\ RunningGeometricStats_mean(g)[3] # 1

(***************************************************************************)
(* The bench command: configuration records, the results list, the summary *)
(* loop and the comparison pass.                                           *)
(*                                                                         *)
(* A value of a configuration record is None or a tagged Python value      *)
(* <<"str", s>>, <<"int", i>>, <<"bool", b>>.                              *)
(***************************************************************************)
PyStr(s) == <<"str", s>>
PyInt(i) == <<"int", i>>
PyBool(b) == <<"bool", b>>
TypeOf(v) == IF v = None THEN "NoneType" ELSE v[1]
Range(s) == {s[i] : i \in 1..Len(s)}

DRIVER_DEFAULTS_padded(driver) ==
    IF driver = PyStr("slatedb-nbd")
    THEN [encryption |-> PyBool(TRUE), ashift |-> PyInt(12), block_size |-> PyInt(4096)]
    ELSE IF driver = PyStr("zerofs")
    THEN [encryption |-> PyBool(FALSE), ashift |-> None, block_size |-> None]
    ELSE [encryption |-> None, ashift |-> None, block_size |-> None]

DRIVER_DEFAULTS_swapped(driver) ==
    IF driver = PyStr("slatedb-nbd") THEN [encryption |-> PyBool(FALSE)]
    ELSE IF driver = PyStr("zerofs")
    THEN [encryption |-> PyBool(TRUE), ashift |-> PyInt(12), block_size |-> PyInt(4096)]
    ELSE <<>>

\* DRIVER_DEFAULTS.get(case_driver, {})
DRIVER_DEFAULTS(driver) ==
    IF driver = PyStr("zerofs") THEN [encryption |-> PyBool(FALSE)]
    ELSE IF driver = PyStr("slatedb-nbd")
    THEN [encryption |-> PyBool(TRUE), ashift |-> PyInt(12), block_size |-> PyInt(4096)]
    ELSE <<>>

\* {**a, **b}
Merge(a, b) ==
    [k \in DOMAIN a \cup DOMAIN b |-> IF k \in DOMAIN b THEN b[k] ELSE a[k]]

Min(a, b) == IF a < b THEN a ELSE b

get_text_matrix_zip(drivers, compression, connections, wal_enabled, object_store_cache) ==
    LET n == Min(Len(drivers), Min(Len(compression), Min(Len(connections),
                 Min(Len(wal_enabled), Len(object_store_cache)))))
    IN [i \in 1..n |->
           [driver |-> drivers[i],
            compression |-> compression[i],
            connections |-> connections[i],
            wal_enabled |-> wal_enabled[i],
            object_store_cache |-> object_store_cache[i]]]

RecordCompression_kept(case_compression) == case_compression

\* "compression": None if case_compression == "off" else case_compression
RecordCompression(case_compression) ==
    IF case_compression = PyStr("off") THEN None ELSE case_compression

\* get_text_matrix: it.product of the five lists, the first outermost
get_text_matrix(drivers, compression, connections, wal_enabled, object_store_cache) ==
    LET n2 == Len(compression)
        n3 == Len(connections)
        n4 == Len(wal_enabled)
        n5 == Len(object_store_cache)
        n == Len(drivers) * n2 * n3 * n4 * n5
        case(j) ==
            LET case_driver == drivers[(j \div (n2 * n3 * n4 * n5)) + 1]
                case_compression == compression[((j \div (n3 * n4 * n5)) % n2) + 1]
                case_connections == connections[((j \div (n4 * n5)) % n3) + 1]
                case_wal_enabled == wal_enabled[((j \div n5) % n4) + 1]
                case_object_store_cache == object_store_cache[(j % n5) + 1]
            IN Merge(DRIVER_DEFAULTS(case_driver),
                     [driver |-> case_driver,
                      compression |-> RecordCompression(case_compression),
                      connections |-> case_connections,
                      wal_enabled |-> case_wal_enabled,
                      object_store_cache |-> case_object_store_cache])
    IN [i \in 1..n |-> case(i - 1)]

\* the records the bench command iterates: without the sweep flags the lists
\* of wal_enabled, object_store_cache and zfs_sync are [None], and slog_size
\* is [zfs_slog] = [None]
Matrix(a) ==
    LET m == get_text_matrix(a.drivers, a.compression, a.connections,
                             <<None>>, <<None>>)
    IN [i \in 1..Len(m) |->
            Merge(m[i], [zfs_sync |-> None, slog_size |-> None])]

\* samples of a Bencher
OpSample(x) == [label |-> "op", elapsed |-> x]
OverallSample(x) == [label |-> "overall_test_duration", elapsed |-> x]

\* sorted(values): ascending; '<' between values of different types raises
StrOrder == <<"off", "x", "y", "zstd">>
StrRank(t) == CHOOSE i \in 1..Len(StrOrder) : StrOrder[i] = t
PyLt(a, b) ==
    IF TypeOf(a) = "str" THEN StrRank(a[2]) < StrRank(b[2])
    ELSE IF TypeOf(a) = "int" THEN a[2] < b[2]
    ELSE a[2] = FALSE /\ b[2] = TRUE

RECURSIVE Ascending(_)
Ascending(S) ==
    IF S = {} THEN <<>>
    ELSE LET m == CHOOSE a \in S : \A b \in S \ {a} : PyLt(a, b)
         IN <<m>> \o Ascending(S \ {m})

sorted(S) ==
    IF \E a, b \in S : TypeOf(a) # TypeOf(b) THEN Raised("TypeError")
    ELSE Returned(Ascending(S))

\* an accumulator of a results_map, with the elapsed times pushed into it
NewAcc == [stats |-> RunningGeometricStats_new, fed |-> <<>>]
AccPush(acc, x) ==
    [stats |-> RunningGeometricStats_push(acc.stats, x).self,
     fed |-> Append(acc.fed, x)]

\* for test in result["tests"]: stats.push(test["elapsed"])
RECURSIVE PushTests(_, _)
PushTests(acc, tests) ==
    IF tests = <<>> THEN acc
    ELSE PushTests(AccPush(acc, tests[1].elapsed), Tail(tests))

\* a mutant of FeedAll: only the last result of the list is read
FeedLast(map, rlist, key) ==
    IF rlist = <<>> THEN map
    ELSE [map EXCEPT ![rlist[Len(rlist)].config[key]] =
              PushTests(@, rlist[Len(rlist)].tests)]

\* for result in results: stats = results_map[result["config"][key]]; ...
RECURSIVE FeedAll(_, _, _)
FeedAll(map, rlist, key) ==
    IF rlist = <<>> THEN map
    ELSE FeedAll([map EXCEPT ![rlist[1].config[key]] =
                      PushTests(@, rlist[1].tests)],
                 Tail(rlist), key)

\* what one call of compare did: the exception it ended with, whether the
\* results_map was built, the map, and the entries printed
NoCompare(key, e) ==
    [key |-> key, exc |-> e, compared |-> FALSE, map |-> <<>>, printed |-> <<>>]

Entry(value, stats) ==
    [value |-> value,
     mean |-> RunningGeometricStats_mean(stats),
     sd |-> RunningGeometricStats_standard_deviation(stats).val]

\* compare(key), nested in bench (test/.../cli.py): the values compared are
\* those found in the results
bench_compare(rlist, key) ==
    LET values == {rlist[i].config[key] : i \in 1..Len(rlist)}
        sv == sorted(values)
    IN IF sv.exc # "none" THEN NoCompare(key, sv.exc)
       ELSE IF Len(sv.val) > 1
       THEN LET map == FeedAll([v \in values |-> NewAcc], rlist, key)
            IN [key |-> key, exc |-> "none", compared |-> TRUE, map |-> map,
                printed |-> [i \in 1..Len(sv.val) |->
                                Entry(sv.val[i], map[sv.val[i]].stats)]]
       ELSE NoCompare(key, "none")

test_parameters ==
    <<"driver", "compression", "connections", "wal_enabled",
      "object_store_cache", "zfs_sync">>

\* for test_condition in test_parameters: compare(test_condition)
RECURSIVE ComparePass(_, _)
ComparePass(rlist, keys) ==
    IF keys = <<>> THEN <<>>
    ELSE LET o == bench_compare(rlist, keys[1])
         IN IF o.exc # "none" THEN <<o>>
            ELSE <<o>> \o ComparePass(rlist, Tail(keys))

NotOverall_all(tests) == tests

\* the samples of a run that are not the wrapper sample
NotOverall(tests) ==
    SelectSeq(tests, LAMBDA t : t.label # "overall_test_duration")

\* compare(key), nested in cli (bench/.../cli.py): the values compared are
\* the option list args.<key>, and the samples are those of `result`, the
\* variable the summary loop left bound to the last element of results
cli_compare(a, result, key) ==
    IF key \notin DOMAIN a THEN NoCompare(key, "AttributeError")
    ELSE IF Len(a[key]) > 1
    THEN LET values == a[key]
             map0 == [v \in Range(values) |-> NewAcc]
             tests == NotOverall(result.tests)
             cv == result.config[key]
         IN IF tests # <<>> /\ cv \notin DOMAIN map0
            THEN [key |-> key, exc |-> "KeyError", compared |-> TRUE,
                  map |-> map0, printed |-> <<>>]
            ELSE LET map == IF tests = <<>> THEN map0
                            ELSE [map0 EXCEPT ![cv] = PushTests(@, tests)]
                 IN [key |-> key, exc |-> "none", compared |-> TRUE,
                     map |-> map,
                     printed |-> [i \in 1..Len(values) |->
                                     Entry(values[i], map[values[i]].stats)]]
    ELSE NoCompare(key, "none")

Summarised_in_place(result, tests) ==
    [config |-> result.config, tests |-> tests, summary |-> None]

\* result["summary"] = {...}, from a fresh accumulator fed the samples
Summarised(result, tests) ==
    LET acc == PushTests(NewAcc, tests) IN
    Merge(result,
          [summary |->
              [geometric_mean |-> RunningGeometricStats_mean(acc.stats),
               geometric_standard_deviation |->
                   RunningGeometricStats_standard_deviation(acc.stats).val]])

(***************************************************************************)
(* The bench command from its option lists to the end of the report.       *)
(***************************************************************************)
\* the option lists: non-empty lists whose matrix has at most MaxRuns records
Lists(S) == UNION {[1..m -> S] : m \in 1..MaxRuns}
ArgChoices ==
    {a \in [drivers : Lists({PyStr("x"), PyStr("y")}),
            compression : Lists({PyStr("off"), PyStr("zstd")}),
            connections : Lists({PyInt(1), PyInt(2)})] :
        Len(a.drivers) * Len(a.compression) * Len(a.connections) <= MaxRuns}

\* the sample lists a run can record
TestLists ==
    {<<OpSample(QInt(2))>>, <<OpSample(QInt(8))>>, <<OpSample(QInt(4))>>,
     <<OpSample(QInt(2)), OverallSample(QInt(8))>>}

\* the sample lists a run of bench() (test/.../cli.py) can record: its
\* wrapper scope is bench_print("overall_test_duration"), which prints the
\* elapsed time and pushes nothing into the Bencher
BenchTestLists == {t \in TestLists : \A k \in 1..Len(t) : t[k].label = "op"}

CompareInit ==
    /\ StatsIdle /\ GeoIdle /\ ExtIdle
    /\ args \in ArgChoices
    /\ results = <<>>
    /\ cpc = "loop"
    /\ report = <<>>

\* results.append({"config": test, "tests": bencher.results}) at the end of
\* the run of the next record of the matrix
AppendResult(tests) ==
    /\ cpc = "loop"
    /\ Len(results) < Len(Matrix(args))
    /\ results' = Append(results,
                         [config |-> Matrix(args)[Len(results) + 1],
                          tests |-> tests])
    /\ UNCHANGED <<args, cpc, report, statsVars, geoVars, extVars>>

\* test/.../cli.py: the summary loop, then compare for each test parameter;
\* an exception raised by a compare call ends the command
BenchReport ==
    /\ cpc = "loop"
    /\ Len(results) = Len(Matrix(args))
    /\ \A i \in 1..Len(results) : results[i].tests \in BenchTestLists
    /\ results' = [i \in 1..Len(results) |->
                      Summarised(results[i], results[i].tests)]
    /\ report' = ComparePass(results', test_parameters)
    /\ cpc' = IF report'[Len(report')].exc = "none"
              THEN "bench_done" ELSE "bench_raised"
    /\ UNCHANGED <<args, statsVars, geoVars, extVars>>

\* bench/.../cli.py: the summary loop, which skips the wrapper sample
CliSummary ==
    /\ cpc = "loop"
    /\ Len(results) = Len(Matrix(args))
    /\ results' = [i \in 1..Len(results) |->
                      Summarised(results[i], NotOverall(results[i].tests))]
    /\ cpc' = "cli_summary"
    /\ UNCHANGED <<args, report, statsVars, geoVars, extVars>>

\* bench/.../cli.py: one of the calls compare("driver"),
\* compare("compression"), compare("connections") that follow the summary loop
CliCompare(key) ==
    /\ cpc = "cli_summary"
    /\ report' = <<cli_compare(args, results[Len(results)], key)>>
    /\ cpc' = IF report'[1].exc = "none" THEN "cli_done" ELSE "cli_raised"
    /\ UNCHANGED <<args, results, statsVars, geoVars, extVars>>

CompareNext ==
    \/ \E t \in TestLists : AppendResult(t)
    \/ BenchReport
    \/ CliSummary
    \/ \E key \in {"driver", "compression", "connections"} : CliCompare(key)

SpecCompare == CompareInit /\ [][CompareNext]_vars

(***************************************************************************)
(* Claims about the comparison pass (specification SpecCompare).           *)
(***************************************************************************)
BenchPassEnded == cpc \in {"bench_done", "bench_raised"}
CliPassEnded == cpc \in {"cli_done", "cli_raised"}
PassEnded == BenchPassEnded \/ CliPassEnded

\* the distinct values of a dimension across all RunResults
Observed(key) == {results[i].config[key] : i \in 1..Len(results)}

\* the samples a pass is to count: all of them, or all but the wrapper sample
Counted(tests) == IF CliPassEnded THEN NotOverall(tests) ELSE tests

\* the elapsed times of the counted samples of the runs whose config[key] is
\* v, run by run
RECURSIVE MatchingElapsed(_, _, _)
MatchingElapsed(rlist, key, v) ==
    IF rlist = <<>> THEN <<>>
    ELSE LET t == Counted(rlist[1].tests)
             mine == IF rlist[1].config[key] = v
                     THEN [i \in 1..Len(t) |-> t[i].elapsed] ELSE <<>>
         IN mine \o MatchingElapsed(Tail(rlist), key, v)

\* the accumulators of call o hold exactly the samples of the matching runs
FedMatching(o) ==
    /\ \A v \in Observed(o.key) :
          /\ v \in DOMAIN o.map
          /\ o.map[v].fed = MatchingElapsed(results, o.key, v)
    /\ \A v \in DOMAIN o.map \ Observed(o.key) : o.map[v].fed = <<>>

\* C8: for every compared dimension with more than one distinct observed
\* value, the accumulator for value v receives exactly the elapsed times of
\* all samples of all RunResults of the full results list whose
\* config[dimension] is v (each once, none of a non-matching run, none
\* carried over from an earlier loop).
C8_AccumulatorsReceiveMatchingSamples ==
    PassEnded =>
        \A i \in 1..Len(report) :
            (report[i].compared /\ Cardinality(Observed(report[i].key)) > 1)
                => FedMatching(report[i])

\* C8 holds of bench_compare (test/.../cli.py): whenever it builds the
\* results_map, every accumulator receives exactly the matching samples.
BenchCompareFeedsMatchingSamples ==
    BenchPassEnded =>
        \A i \in 1..Len(report) : report[i].compared => FedMatching(report[i])

\* the dimensions a pass is to compare
KeysOfPass ==
    IF BenchPassEnded THEN Range(test_parameters) ELSE {report[1].key}

\* the entries printed for a dimension
PrintedFor(key) ==
    IF \E i \in 1..Len(report) : report[i].key = key
    THEN report[CHOOSE i \in 1..Len(report) : report[i].key = key].printed
    ELSE <<>>

\* C9: comparison output is emitted for a dimension if and only if more than
\* one distinct value of it occurs across all RunResults, then with exactly
\* one entry per distinct observed value; a dimension with a single observed
\* value produces no output.
C9_OutputIffSeveralValues ==
    PassEnded =>
        \A key \in KeysOfPass :
            LET out == PrintedFor(key) IN
            /\ out # <<>> <=> Cardinality(Observed(key)) > 1
            /\ out # <<>> =>
                  /\ Len(out) = Cardinality(Observed(key))
                  /\ {out[i].value : i \in 1..Len(out)} = Observed(key)

\* C9 holds of bench_compare for every dimension whose call returned normally.
BenchCompareOutputIffSeveralValues ==
    BenchPassEnded =>
        \A i \in 1..Len(report) :
            LET o == report[i] IN
            o.exc = "none" =>
                /\ o.printed # <<>> <=> Cardinality(Observed(o.key)) > 1
                /\ o.printed # <<>> =>
                      /\ Len(o.printed) = Cardinality(Observed(o.key))
                      /\ {o.printed[j].value : j \in 1..Len(o.printed)}
                             = Observed(o.key)

\* three RunResults with drivers x, x, y and one sample each: 2.0, 8.0, 4.0
XXYScenario ==
    /\ Len(results) = 3
    /\ [i \in 1..3 |-> results[i].config.driver]
           = <<PyStr("x"), PyStr("x"), PyStr("y")>>
    /\ [i \in 1..3 |-> results[i].tests]
           = <<<<OpSample(QInt(2))>>, <<OpSample(QInt(8))>>,
               <<OpSample(QInt(4))>>>>

\* C10: with drivers x, x, y and samples 2.0, 8.0, 4.0, grouping by driver
\* reports geometric mean 4.0 (sqrt(2 * 8)) for x and 4.0 for y, and both
\* values appear in the driver comparison.
C10_DriverScenario ==
    (BenchPassEnded /\ XXYScenario) =>
        LET o == report[1] IN
        /\ o.key = "driver" /\ o.exc = "none"
        /\ Len(o.printed) = 2
        /\ o.printed[1].value = PyStr("x")
        /\ PowerIs(o.printed[1].mean, 1, QInt(4))
        /\ o.printed[2].value = PyStr("y")
        /\ PowerIs(o.printed[2].mean, 1, QInt(4))

C10_Witness == cpc = "bench_done" /\ XXYScenario /\ Len(report) = 6

(***************************************************************************)
(* The sample recorder (bencher.py).  A reading of time.perf_counter() is  *)
(* a tick count; the clock never goes back.  A scope is the suspended      *)
(* frame of the generator behind bench(label): its label and start, and,   *)
(* for stating the claims, the number of the entry and of the enclosing    *)
(* entry (0 when there is none).                                           *)
(***************************************************************************)
MaxDepth == 2
MaxSamples == 3
MaxClock == 2

Labels == {"a", "b"}

\* Bencher(): results is a fresh empty list
Bencher_new == [results |-> <<>>]

Bencher_push_front(self, label, elapsed) ==
    [self EXCEPT !.results = <<[label |-> label, elapsed |-> elapsed]>> \o @]

\* self.results.append({"label": label, "elapsed": elapsed})
Bencher_push(self, label, elapsed) ==
    [self EXCEPT !.results = Append(@, [label |-> label, elapsed |-> elapsed])]

\* the readings time.perf_counter() can return after the reading `last`
perf_counter(last) == {t \in {last, last + 1} : t <= MaxClock}

\* bench(label) up to its yield: start = time.perf_counter()
Bencher_bench_enter(label, now) == [label |-> label, start |-> now]

Bencher_bench_exit_no_finally(self, frame, now, raised) ==
    IF raised # "none" THEN self
    ELSE Bencher_push(self, frame.label, now - frame.start)

\* bench(label) from its yield on: the finally block runs whether the body
\* returned or raised (`raised`), then the exception, if any, goes on
Bencher_bench_exit(self, frame, now, raised) ==
    Bencher_push(self, frame.label, now - frame.start)

Top(st) == st[Len(st)]
Pop(st) == SubSeq(st, 1, Len(st) - 1)
Entered == Len(closed) + Len(scopes)

\* with bencher.bench(label): entered
BenchEnter(label) ==
    /\ bexc = "none"
    /\ Len(scopes) < MaxDepth
    /\ Len(bencher.results) + Len(scopes) < MaxSamples
    /\ \E now \in perf_counter(clock) :
          /\ clock' = now
          /\ scopes' = Append(scopes,
                 [frame |-> Bencher_bench_enter(label, now),
                  id |-> Entered + 1,
                  parent |-> IF scopes = <<>> THEN 0 ELSE Top(scopes).id])
    /\ UNCHANGED <<bencher, bexc, closed>>

\* the body of the innermost scope raises (a command exits non-zero)
BodyRaise ==
    /\ scopes # <<>>
    /\ bexc = "none"
    /\ bexc' = "CalledProcessError"
    /\ UNCHANGED <<bencher, scopes, clock, closed>>

\* the innermost scope is left, by the end of its body or by the exception
\* in flight
BenchExit ==
    /\ scopes # <<>>
    /\ \E now \in perf_counter(clock) :
          /\ clock' = now
          /\ bencher' = Bencher_bench_exit(bencher, Top(scopes).frame, now, bexc)
    /\ closed' = Append(closed, [id |-> Top(scopes).id,
                                 parent |-> Top(scopes).parent,
                                 label |-> Top(scopes).frame.label])
    /\ scopes' = Pop(scopes)
    /\ UNCHANGED bexc

\* bencher.push(label=..., elapsed=...) called directly
BencherPush(label, elapsed) ==
    /\ bexc = "none"
    /\ Len(bencher.results) + Len(scopes) < MaxSamples
    /\ bencher' = Bencher_push(bencher, label, elapsed)
    /\ closed' = Append(closed, [id |-> Entered + 1, parent |-> 0 - 1,
                                 label |-> label])
    /\ UNCHANGED <<scopes, clock, bexc>>

BencherInit ==
    /\ StatsIdle /\ GeoIdle /\ CompareIdle /\ MoreIdle
    /\ bencher = Bencher_new
    /\ scopes = <<>>
    /\ clock = 0
    /\ bexc = "none"
    /\ closed = <<>>
    /\ MatrixIdle /\ RunIdle

BencherAction ==
    \/ \E label \in Labels : BenchEnter(label)
    \/ BodyRaise
    \/ BenchExit
    \/ \E label \in Labels : \E elapsed \in 0..1 : BencherPush(label, elapsed)

BencherNext ==
    BencherAction
        /\ UNCHANGED <<statsVars, geoVars, cmpVars, mxVars, runVars, moreVars>>

SpecBencher == BencherInit /\ [][BencherNext]_vars

\* results' is results with one entry added at the end
GrowsByOne(before, after) ==
    /\ Len(after) = Len(before) + 1
    /\ SubSeq(after, 1, Len(before)) = before

\* C11: every bench(label) scope, when it is left, appends exactly one sample
\* with its label to its Bencher, whether the body completed or raised; when
\* the body raised the exception still propagates.
C11_ScopeExitAppendsOneSample ==
    [][Len(scopes') < Len(scopes) =>
          /\ scopes' = Pop(scopes)
          /\ GrowsByOne(bencher.results, bencher'.results)
          /\ Top(bencher'.results).label = Top(scopes).frame.label
          /\ Top(bencher'.results).elapsed = clock' - Top(scopes).frame.start
          /\ bexc' = bexc]_vars

\* two nested scopes were left by an exception, which reached the caller
C11_Witness ==
    /\ scopes = <<>> /\ bexc = "CalledProcessError"
    /\ Len(bencher.results) = 2
    /\ \E i \in 1..Len(closed) : closed[i].parent > 0

\* C12: push and scope exits only append: each grows the result list by one
\* entry at the end and leaves the earlier samples as they were; the samples
\* are in the order in which their scopes completed, so the sample of a
\* nested scope precedes that of the enclosing scope.
C12_AppendOnlyInCompletionOrder ==
    /\ [][bencher'.results # bencher.results =>
             GrowsByOne(bencher.results, bencher'.results)]_vars
    /\ [](/\ Len(bencher.results) = Len(closed)
          /\ \A i \in 1..Len(closed) :
                bencher.results[i].label = closed[i].label
          /\ \A i, j \in 1..Len(closed) :
                closed[i].parent = closed[j].id => i < j)

\* an inner sample, the sample of its enclosing scope and a pushed sample,
\* with labels that tell the order
C12_Witness ==
    /\ Len(bencher.results) = 3 /\ scopes = <<>>
    /\ closed[1].parent = closed[2].id
    /\ closed[1].label # closed[2].label
    /\ closed[3].parent < 0

(***************************************************************************)
(* The configuration matrix (drivers/config.py).  get_text_matrix is a     *)
(* generator function: a call returns a generator object, and a `for` over *)
(* it takes the records one by one until the generator is exhausted.       *)
(***************************************************************************)
MaxList == 2
MaxRecords == 4

\* get_text_matrix with the two further dimensions the bench command of
\* test/.../cli.py passes: zfs_sync and slog_size, innermost
get_text_matrix7(drivers, compression, connections, wal_enabled, object_store_cache, zfs_sync, slog_size) ==
    LET m == get_text_matrix(drivers, compression, connections, wal_enabled,
                             object_store_cache)
        n6 == Len(zfs_sync)
        n7 == Len(slog_size)
    IN [i \in 1..(Len(m) * n6 * n7) |->
           Merge(m[((i - 1) \div (n6 * n7)) + 1],
                 [zfs_sync |-> zfs_sync[(((i - 1) \div n7) % n6) + 1],
                  slog_size |-> slog_size[((i - 1) % n7) + 1]])]

\* the call of get_text_matrix with the keyword arguments a
matrix_call(a) ==
    IF "zfs_sync" \in DOMAIN a
    THEN get_text_matrix7(a.drivers, a.compression, a.connections,
                          a.wal_enabled, a.object_store_cache,
                          a.zfs_sync, a.slog_size)
    ELSE get_text_matrix(a.drivers, a.compression, a.connections,
                         a.wal_enabled, a.object_store_cache)

\* a generator object: the records its body will yield and how many of them
\* it has yielded
generator_new(items) == [items |-> items, pos |-> 0]

generator_next_restart(gn) ==
    IF gn.pos < Len(gn.items)
    THEN [yield |-> <<gn.items[gn.pos + 1]>>, gen |-> [gn EXCEPT !.pos = @ + 1]]
    ELSE [yield |-> <<>>, gen |-> [gn EXCEPT !.pos = 0]]

\* next(gen): the next record, or StopIteration (no record) once the body
\* has returned, and from then on
generator_next(gn) ==
    IF gn.pos < Len(gn.items)
    THEN [yield |-> <<gn.items[gn.pos + 1]>>, gen |-> [gn EXCEPT !.pos = @ + 1]]
    ELSE [yield |-> <<>>, gen |-> gn]

\* the dimension lists: the options are non-empty lists, the sweep flags
\* give [True, False] or [None], zfs_sync the three modes or [None], and
\* slog_size is [zfs_slog]
DimLists(S) == UNION {[1..m -> S] : m \in 1..MaxList}
Flag == {<<None>>, <<PyBool(TRUE), PyBool(FALSE)>>}
ListNames(a) ==
    IF "zfs_sync" \in DOMAIN a
    THEN <<"drivers", "compression", "connections", "wal_enabled",
           "object_store_cache", "zfs_sync", "slog_size">>
    ELSE <<"drivers", "compression", "connections", "wal_enabled",
           "object_store_cache">>
RECURSIVE ProductOfLengths(_, _)
ProductOfLengths(a, names) ==
    IF names = <<>> THEN 1
    ELSE Len(a[Head(names)]) * ProductOfLengths(a, Tail(names))
MatrixArgs5 ==
    [drivers : DimLists({PyStr("slatedb-nbd"), PyStr("zerofs"), PyStr("folder")}),
     compression : DimLists({PyStr("off"), PyStr("zstd")}),
     connections : DimLists({PyInt(1), PyInt(2)}),
     wal_enabled : Flag,
     object_store_cache : Flag]
MatrixArgs7 ==
    [drivers : DimLists({PyStr("slatedb-nbd"), PyStr("zerofs"), PyStr("folder")}),
     compression : DimLists({PyStr("off"), PyStr("zstd")}),
     connections : DimLists({PyInt(1), PyInt(2)}),
     wal_enabled : Flag,
     object_store_cache : Flag,
     zfs_sync : {<<None>>, <<PyStr("disabled"), PyStr("standard"), PyStr("always")>>},
     slog_size : {<<None>>, <<PyInt(1)>>}]
MatrixArgs ==
    {a \in MatrixArgs5 \cup MatrixArgs7 :
        ProductOfLengths(a, ListNames(a)) <= MaxRecords}

MatrixInit ==
    /\ StatsIdle /\ GeoIdle /\ CompareIdle /\ BencherIdle /\ RunIdle
    /\ MoreIdle
    /\ mxArgs \in MatrixArgs
    /\ gen = None
    /\ pass1 = <<>>
    /\ pass2 = <<>>
    /\ mpc = "call"

\* m = get_text_matrix(...): nothing of the body has run yet
MatrixCall ==
    /\ mpc = "call"
    /\ gen' = generator_new(matrix_call(mxArgs))
    /\ mpc' = "pass1"
    /\ UNCHANGED <<mxArgs, pass1, pass2>>

\* one round of `for test in m`, in the first or in the second loop over m
MatrixIterate ==
    /\ mpc \in {"pass1", "pass2"}
    /\ LET r == generator_next(gen) IN
       /\ gen' = r.gen
       /\ IF r.yield = <<>>
          THEN /\ mpc' = IF mpc = "pass1" THEN "pass2" ELSE "done"
               /\ UNCHANGED <<pass1, pass2>>
          ELSE /\ mpc' = mpc
               /\ pass1' = IF mpc = "pass1" THEN Append(pass1, r.yield[1]) ELSE pass1
               /\ pass2' = IF mpc = "pass2" THEN Append(pass2, r.yield[1]) ELSE pass2
    /\ UNCHANGED mxArgs

MatrixNext ==
    (MatrixCall \/ MatrixIterate)
        /\ UNCHANGED <<statsVars, geoVars, cmpVars, benchVars, runVars, moreVars>>

SpecMatrix == MatrixInit /\ [][MatrixNext]_vars

(***************************************************************************)
(* Claims about the configuration matrix (specification SpecMatrix).       *)
(***************************************************************************)
Pass1Complete == mpc \in {"pass2", "done"}

\* the key of a record that carries the value of a dimension list
KeyOf(name) == IF name = "drivers" THEN "driver" ELSE name
ExplicitKeys(a) == {KeyOf(ListNames(a)[i]) : i \in 1..Len(ListNames(a))}

\* the value a record carries for a supplied value
Carried(name, v) ==
    IF name = "compression" /\ v = PyStr("off") THEN None ELSE v

RECURSIVE Concat(_)
Concat(seqs) == IF seqs = <<>> THEN <<>> ELSE Head(seqs) \o Concat(Tail(seqs))

\* the combinations of the lists in lexicographic order, the first list
\* outermost: nested loops over the lists
RECURSIVE Lexicographic(_, _)
Lexicographic(a, names) ==
    IF names = <<>> THEN << <<>> >>
    ELSE LET rest == Lexicographic(a, Tail(names))
             list == a[Head(names)]
         IN Concat([i \in 1..Len(list) |->
                       [j \in 1..Len(rest) |->
                           <<Carried(Head(names), list[i])>> \o rest[j]]])

\* the values a record carries for the dimensions, outermost first
Combination(a, r) == [i \in 1..Len(ListNames(a)) |-> r[KeyOf(ListNames(a)[i])]]

DuplicateFree(list) ==
    \A i, j \in 1..Len(list) : list[i] = list[j] => i = j

NineKeys ==
    {"driver", "compression", "connections", "wal_enabled",
     "object_store_cache", "zfs_sync", "ashift", "block_size", "slog_size"}

\* C14: all records of one matrix have the same key set, and it contains
\* all nine dimension keys, a dimension that does not apply to a record
\* being present with a null value rather than missing.
C14_SameNineKeys ==
    Pass1Complete =>
        \A i, j \in 1..Len(pass1) :
            /\ DOMAIN pass1[i] = DOMAIN pass1[j]
            /\ NineKeys \subseteq DOMAIN pass1[i]

\* the keys of the fixed defaults of a driver
DefaultKeysOf(driver) ==
    IF driver = PyStr("slatedb-nbd") THEN {"encryption", "ashift", "block_size"}
    ELSE IF driver = PyStr("zerofs") THEN {"encryption"}
    ELSE {}

\* C14 as amended: the key set of a record is the keys of the dimensions
\* passed to the generator together with the keys of its driver's defaults,
\* so records of the same driver share their key set, and a default that a
\* driver does not have is missing from its records, not null.
C14_KeysPerDriver ==
    Pass1Complete =>
        \A i \in 1..Len(pass1) :
            DOMAIN pass1[i]
                = ExplicitKeys(mxArgs) \cup DefaultKeysOf(pass1[i].driver)

\* a matrix over two drivers whose records differ in their keys
C14_Witness ==
    /\ mpc = "done" /\ Len(pass1) >= 2
    /\ \E i, j \in 1..Len(pass1) : DOMAIN pass1[i] # DOMAIN pass1[j]

\* C15: the sequence get_text_matrix returns is restartable: iterating it a
\* second time yields the same records in the same order as the first time.
C15_Restartable == mpc = "done" => pass2 = pass1

\* C15 as amended: the returned sequence is single-pass: the first
\* iteration yields all the records, and a second iteration of the same
\* returned object yields none.
C15_SinglePass ==
    mpc = "done" =>
        /\ Len(pass1) = ProductOfLengths(mxArgs, ListNames(mxArgs))
        /\ pass2 = <<>>

C15_Witness == mpc = "done" /\ Len(pass1) >= 2 /\ gen.pos = Len(pass1)

\* C16: every record contains the fixed defaults of its driver (slatedb-nbd:
\* encryption true, ashift 12, block_size 4096; zerofs: encryption false; any
\* other driver: none), and a key that is given an explicit dimension value
\* carries that value.
C16_DriverDefaults ==
    Pass1Complete =>
        \A i \in 1..Len(pass1) :
            LET r == pass1[i]
                names == ListNames(mxArgs)
            IN
            /\ r.driver = PyStr("slatedb-nbd") =>
                  /\ r.encryption = PyBool(TRUE)
                  /\ r.ashift = PyInt(12)
                  /\ r.block_size = PyInt(4096)
            /\ r.driver = PyStr("zerofs") => r.encryption = PyBool(FALSE)
            /\ r.driver \notin {PyStr("slatedb-nbd"), PyStr("zerofs")} =>
                  DOMAIN r = ExplicitKeys(mxArgs)
            /\ \A n \in 1..Len(names) :
                  \E k \in 1..Len(mxArgs[names[n]]) :
                      r[KeyOf(names[n])] = Carried(names[n], mxArgs[names[n]][k])

\* records of slatedb-nbd, of zerofs and of a driver without defaults
C16_Witness ==
    /\ Pass1Complete
    /\ \E i, j \in 1..Len(pass1) :
          /\ pass1[i].driver = PyStr("zerofs")
          /\ pass1[j].driver = PyStr("folder")
    /\ "zfs_sync" \notin DOMAIN mxArgs

(***************************************************************************)
(* The configuration run.  Four entry points share one shape: a loop over  *)
(* configuration records, and for each record an ExitStack on which the    *)
(* context managers of the resources are entered, the workload, and the    *)
(* exit of the stack.                                                      *)
(*   "main"    main() of main.py, over TESTS                               *)
(*   "cli"     cli() of bench/.../cli.py, over the matrix                  *)
(*   "bench"   bench() of test/.../cli.py, over the matrix                 *)
(*   "driver"  zfs_on_nbd_driver(base_driver=..., **kwargs) of             *)
(*             test/.../cli.py around a body, called once                  *)
(* temporary_zfs enters the pool and the dataset on an ExitStack of its    *)
(* own; they are carried here on the one stack, in the same order.         *)
(***************************************************************************)
MaxMatrix == 2

Rec(driver, slog_size) == [driver |-> driver, slog_size |-> slog_size]

\* TESTS of main.py (no record has a slog_size)
TESTS ==
    <<Rec("zerofs", None), Rec("zerofs", None),
      Rec("slatedb-nbd", None), Rec("slatedb-nbd", None)>>

\* the context managers a run enters, in order
Plan(v, rec) ==
    IF v = "main" THEN <<"cwd", "service", "nbd", "pool", "dataset">>
    ELSE IF v = "bench" THEN <<"cwd", "bucket">>
    ELSE IF v = "driver" THEN <<"service", "nbd", "pool", "dataset">>
    ELSE IF rec.driver = "zerofs-plan9"
    THEN <<"cwd", "bucket", "service", "plan9">>
    ELSE <<"cwd", "bucket", "service", "nbd", "pool", "dataset">>

\* how entering the context manager of resource r can end:
\*   "ok"           the resource exists and the manager has yielded
\*   "fail_before"  a command failed, the resource does not exist
\*   "fail_after"   the resource exists, and a later command of the same
\*                  function failed before its try: the manager never yielded
EnterOutcomes(r, rec) ==
    IF r = "cwd" THEN {"ok"}
    ELSE IF r = "service"
    THEN IF rec.driver \in {"slatedb-nbd", "zerofs", "zerofs-plan9"}
         THEN {"ok", "fail_before"} ELSE {"fail_before"}
    ELSE IF r \in {"bucket", "nbd"} THEN {"ok", "fail_before"}
    ELSE IF r = "pool"
    THEN IF rec.slog_size # None THEN {"ok", "fail_before", "fail_after"}
         ELSE {"ok", "fail_before"}
    ELSE {"ok", "fail_before", "fail_after"}

\* the teardowns that run a command with check=True
FallibleTeardown == {"bucket", "nbd", "pool", "plan9"}

Step(label, scoped) == [label |-> label, scoped |-> scoped]

\* the commands of the workload, in order: the label of the bench scope
\* around the command ("" when there is none) and whether the command runs
\* inside the overall_test_duration scope
Workload(v, rec) ==
    IF v = "main"
    THEN <<Step("", TRUE), Step("linux_kernel_source_extraction", TRUE),
           Step("recursive_delete", TRUE), Step("sparse_file_creation", TRUE),
           Step("write_big_zeroes", TRUE), Step("zfs_snapshot", TRUE),
           Step("", TRUE), Step("wait_for_trim_completion", TRUE),
           Step("sync", TRUE), Step("zpool sync", TRUE), Step("", FALSE)>>
    ELSE IF v = "bench" THEN <<>>
    ELSE IF v = "driver" THEN <<Step("", TRUE)>>
    ELSE IF rec.driver = "zerofs-plan9"
    THEN <<Step("", TRUE), Step("linux_kernel_source_extraction", TRUE),
           Step("write_big_zeroes", TRUE), Step("sync", TRUE)>>
    ELSE <<Step("", TRUE), Step("linux_kernel_source_extraction", TRUE),
           Step("sparse_file_creation", TRUE), Step("write_big_zeroes", TRUE),
           Step("zfs_snapshot", TRUE), Step("sync", TRUE),
           Step("zpool sync", TRUE), Step("", FALSE)>>

\* only cli() times the steps into a Bencher and wraps them in
\* bencher.bench("overall_test_duration"); main() prints the timings, and
\* bench() never gets to its workload
Recording(v) == v = "cli"

\* whether control reaches results.append after the with block: main() has
\* no results list, bench() and the zerofs-plan9 branch of cli() leave the
\* block with `continue`
Appends(v, rec) == v = "cli" /\ rec.driver # "zerofs-plan9"

\* bench_linux_kernel_source_extraction of bench/.../tests/files.py opens
\* its scope with `Bencher.bench("linux_kernel_source_extraction")`, on the
\* class: the call raises TypeError (label is missing) and enters no scope
ClassCall(v, s) == v = "cli" /\ s.label = "linux_kernel_source_extraction"

\* how a step can end: "ok" or the exception raised (check=True)
StepOutcomes(v, s) ==
    IF ClassCall(v, s) THEN {"TypeError"} ELSE {"ok", "CalledProcessError"}

\* the samples the Bencher holds after a step ran
SamplesAfter(v, work, k, failed) ==
    LET s == work[k]
        own == IF s.label # "" /\ ~ClassCall(v, s) THEN <<s.label>> ELSE <<>>
        last == k = Len(work) \/ ~work[k + 1].scoped
        overall == IF s.scoped /\ (failed \/ last)
                   THEN <<"overall_test_duration">> ELSE <<>>
    IN IF Recording(v) THEN rbench \o own \o overall ELSE rbench

Acquire(r) == [kind |-> "acquire", resource |-> r]
Teardown(r) == [kind |-> "teardown", resource |-> r]
Error(e, where) == [exc |-> e, at |-> where]

\* a resource that exists (a running service process, a connected NBD
\* device, an imported pool, ...) and the run whose context manager made it
Held(run, r) == [run |-> run, resource |-> r]

Release_nothing(lv, run, r) == lv

\* the teardown of a context manager succeeded: its resource is gone
Release(lv, run, r) == SelectSeq(lv, LAMBDA h : h # Held(run, r))

\* os.chdir(d): the working directory of the process, with the directories
\* the run has made current so far
os_chdir(w, d) == [w EXCEPT !.cwd = d, !.visited = @ \cup {d}]

\* push_pop_cwd up to its yield: original_cwd = os.getcwd(); os.chdir(new_cwd)
push_pop_cwd_enter(w, new_cwd) ==
    os_chdir([w EXCEPT !.original_cwd = w.cwd], new_cwd)

push_pop_cwd_exit_stay(w) == w

\* push_pop_cwd, finally: os.chdir(original_cwd)
push_pop_cwd_exit(w) == os_chdir(w, w.original_cwd)

RECURSIVE ChdirAll(_, _)
ChdirAll(w, ds) == IF ds = <<>> THEN w ELSE ChdirAll(os_chdir(w, ds[1]), Tail(ds))

\* the directories zerofs_background makes current before it launches the
\* service: /tmp, the clone, and (not in main.py) the crate inside it
ZerofsDirs(v) ==
    IF v = "main" THEN <<"/tmp", "/tmp/ZeroFS">>
    ELSE <<"/tmp", "/tmp/ZeroFS", "/tmp/ZeroFS/zerofs">>

\* the working directory after entering the context manager of resource r:
\* zerofs_background restores the directory it found only when it got as
\* far as the launch, a failure leaves the directory it had reached; the
\* dataset and the Plan 9 mount make their mountpoint current
EnterDirs(v, r, rec, outcome, w) ==
    IF r = "cwd" THEN {push_pop_cwd_enter(w, "pkg")}
    ELSE IF r = "service" /\ rec.driver \in {"zerofs", "zerofs-plan9"}
    THEN IF outcome = "ok"
         THEN {os_chdir(ChdirAll(w, ZerofsDirs(v)), w.cwd)}
         ELSE {ChdirAll(w, SubSeq(ZerofsDirs(v), 1, n)) :
                  n \in 0..Len(ZerofsDirs(v))}
    ELSE IF r = "dataset" /\ outcome = "ok" THEN {os_chdir(w, "/mnt/pool/test")}
    ELSE IF r = "plan9" /\ outcome = "ok" THEN {os_chdir(w, "/mnt/zerofs_9p_test")}
    ELSE {w}

\* the working directory after the exit of the context manager of r: the
\* dataset and the Plan 9 mount leave for the root before anything else
ExitDir(r, w) ==
    IF r = "cwd" THEN push_pop_cwd_exit(w)
    ELSE IF r \in {"dataset", "plan9"} THEN os_chdir(w, "/")
    ELSE w

\* where the command is started from: the package directory, or elsewhere
StartDirs == {"home", "pkg"}

RunDrivers == {"slatedb-nbd", "zerofs", "zerofs-plan9"}
RunInputs ==
    {[variant |-> "main", todo |-> TESTS]}
    \cup {[variant |-> v, todo |-> [i \in 1..m |-> Rec(d[i], None)]] :
             v \in {"cli", "bench"},
             m \in 1..MaxMatrix,
             d \in [1..MaxMatrix -> RunDrivers]}
    \cup {[variant |-> "driver", todo |-> <<Rec(d, sl)>>] :
             d \in {"slatedb-nbd", "zerofs", "folder"},
             sl \in {None, PyInt(1)}}

RunInit ==
    /\ StatsIdle /\ GeoIdle /\ CompareIdle /\ BencherIdle /\ MatrixIdle
    /\ MoreIdle
    /\ \E in \in RunInputs : variant = in.variant /\ todo = in.todo
    /\ ri = 0 /\ stack = <<>> /\ ei = 0 /\ step = 0
    /\ events = <<>> /\ rbench = <<>> /\ err = NoErr
    /\ rpc = "next" /\ runResults = <<>> /\ live = <<>>
    /\ \E d \in StartDirs :
          wd = [cwd |-> d, original_cwd |-> None, before |-> d, visited |-> {}]

\* the head of the for loop: the next record, a fresh Bencher and a fresh
\* ExitStack; main() first empties the bucket with a plain call
RunStart(ok) ==
    /\ rpc = "next"
    /\ IF ri = Len(todo)
       THEN /\ ok
            /\ rpc' = "end"
            /\ UNCHANGED <<ri, stack, ei, step, events, rbench, err, wd>>
       ELSE /\ ri' = ri + 1
            /\ wd' = [wd EXCEPT !.before = wd.cwd, !.visited = {},
                                !.original_cwd = None]
            /\ stack' = <<>> /\ ei' = 0 /\ step' = 0
            /\ events' = <<>> /\ rbench' = <<>>
            /\ ok \/ variant = "main"
            /\ err' = IF ok THEN NoErr ELSE Error("CalledProcessError", "setup")
            /\ rpc' = IF ok THEN "enter" ELSE "raised"
    /\ UNCHANGED <<variant, todo, runResults, live>>

\* stack.enter_context(...) of the next context manager of the plan
RunEnter(outcome) ==
    /\ rpc = "enter"
    /\ LET rec == todo[ri]
           r == Plan(variant, rec)[ei + 1]
       IN
       /\ outcome \in EnterOutcomes(r, rec)
       /\ events' = IF outcome = "fail_before" THEN events
                    ELSE Append(events, Acquire(r))
       /\ live' = IF outcome = "fail_before" THEN live
                  ELSE Append(live, Held(ri, r))
       /\ wd' \in EnterDirs(variant, r, rec, outcome, wd)
       /\ IF outcome = "ok"
          THEN /\ stack' = Append(stack, r)
               /\ ei' = ei + 1
               /\ rpc' = IF ei + 1 < Len(Plan(variant, rec)) THEN "enter"
                         ELSE IF Workload(variant, rec) = <<>> THEN "unwind"
                         ELSE "work"
               /\ UNCHANGED err
          ELSE /\ err' = Error(IF r = "service" /\ rec.driver \notin RunDrivers
                               THEN "ValueError" ELSE "CalledProcessError",
                               "setup")
               /\ rpc' = "unwind"
               /\ UNCHANGED <<stack, ei>>
    /\ UNCHANGED <<variant, todo, ri, step, rbench, runResults>>

\* the next command of the workload; a bench scope that is left pushes its
\* sample whether the command failed or not
RunStep(outcome) ==
    /\ rpc = "work"
    /\ LET work == Workload(variant, todo[ri])
           s == work[step + 1]
       IN
       /\ outcome \in StepOutcomes(variant, s)
       /\ rbench' = SamplesAfter(variant, work, step + 1, outcome # "ok")
       /\ IF outcome = "ok"
          THEN /\ step' = step + 1
               /\ rpc' = IF step + 1 < Len(work) THEN "work" ELSE "unwind"
               /\ UNCHANGED err
          ELSE /\ err' = Error(outcome, IF s.scoped THEN "workload" ELSE "after")
               /\ rpc' = "unwind"
               /\ UNCHANGED step
    /\ UNCHANGED <<variant, todo, ri, stack, ei, events, runResults, live, wd>>

ExitStack_exit_abort(st, ok) == IF ok THEN Pop(st) ELSE <<>>

\* the callbacks left on an ExitStack after the exit of the context entered
\* last: whether that exit raised or not, the remaining ones are still due
ExitStack_exit(st, ok) == Pop(st)

\* ExitStack.__exit__: the exit of the context entered last; a teardown
\* that fails replaces the exception in flight and the unwinding goes on
RunUnwind(ok) ==
    /\ rpc = "unwind"
    /\ stack # <<>>
    /\ ok \/ Top(stack) \in FallibleTeardown
    /\ events' = Append(events, Teardown(Top(stack)))
    /\ live' = IF ok THEN Release(live, ri, Top(stack)) ELSE live
    /\ stack' = ExitStack_exit(stack, ok)
    /\ wd' = ExitDir(Top(stack), wd)
    /\ err' = IF ok THEN err ELSE Error("CalledProcessError", "teardown")
    /\ UNCHANGED <<variant, todo, ri, ei, step, rbench, rpc, runResults>>

\* the with block is left: an exception goes on out of the loop and ends
\* the command (nothing catches it); otherwise results.append where the
\* code reaches it, and the loop goes on
RunLeave ==
    /\ rpc = "unwind"
    /\ stack = <<>>
    /\ IF err # NoErr
       THEN rpc' = "raised" /\ UNCHANGED runResults
       ELSE /\ rpc' = "next"
            /\ runResults' =
                  IF Appends(variant, todo[ri])
                  THEN Append(runResults, [config |-> todo[ri], tests |-> rbench])
                  ELSE runResults
    /\ UNCHANGED <<variant, todo, ri, stack, ei, step, events, rbench, err, live, wd>>

RunAction ==
    \/ \E ok \in BOOLEAN : RunStart(ok)
    \/ \E outcome \in {"ok", "fail_before", "fail_after"} : RunEnter(outcome)
    \/ \E outcome \in {"ok", "CalledProcessError", "TypeError"} : RunStep(outcome)
    \/ \E ok \in BOOLEAN : RunUnwind(ok)
    \/ RunLeave

RunNext ==
    RunAction
        /\ UNCHANGED <<statsVars, geoVars, cmpVars, benchVars, mxVars, moreVars>>

SpecRun == RunInit /\ [][RunNext]_vars

(***************************************************************************)
(* Claims about the configuration run (specification SpecRun).             *)
(***************************************************************************)
Reverse(q) == [i \in 1..Len(q) |-> q[Len(q) + 1 - i]]
Resources(kind) ==
    LET sel == SelectSeq(events, LAMBDA e : e.kind = kind)
    IN [i \in 1..Len(sel) |-> sel[i].resource]
Acquired == Resources("acquire")
TornDown == Resources("teardown")
RunEnded == rpc \in {"next", "raised", "end"}

TeardownsThatRunAreInReverseOrder ==
    /\ \A i, j \in 1..Len(TornDown) :
          i < j =>
              \E a, b \in 1..Len(Acquired) :
                  /\ Acquired[a] = TornDown[i]
                  /\ Acquired[b] = TornDown[j]
                  /\ b < a
    /\ RunEnded => stack = <<>>

\* C18: once a resource has been acquired its teardown is executed exactly
\* once before the run ends, on every exit path, also when a later command
\* of the same provisioning function fails after the resource exists.
C18_TeardownExactlyOnce ==
    RunEnded =>
        \A a \in 1..Len(Acquired) :
            Cardinality({t \in 1..Len(TornDown) : TornDown[t] = Acquired[a]}) = 1

\* a resource whose context manager yielded is torn down exactly once
EnteredResourcesAreTornDownOnce ==
    /\ \A t, u \in 1..Len(TornDown) : TornDown[t] = TornDown[u] => t = u
    /\ \A t \in 1..Len(TornDown) : \E a \in 1..Len(Acquired) : Acquired[a] = TornDown[t]
    /\ \A k \in 1..Len(stack) : \A t \in 1..Len(TornDown) : TornDown[t] # stack[k]

\* C19: for every configuration record the loop takes, exactly one
\* RunResult {config, samples} is appended to the results list, whatever
\* the driver and whether or not the workload failed part-way; after a
\* partial failure it holds the samples captured before the failure.
C19_OneRunResultPerRecord ==
    (variant \in {"cli", "bench"} /\ RunEnded /\ err.at \in {"none", "workload"}) =>
        /\ Len(runResults) = ri
        /\ \A i \in 1..Len(runResults) : runResults[i].config = todo[i]
        /\ ri > 0 => runResults[ri].tests = rbench

\* C20: when a workload step of a configuration fails, the remaining steps
\* are skipped, the resources are torn down, and the loop goes on with the
\* next record instead of ending the whole matrix.
C20_MatrixContinuesAfterFailure ==
    (variant # "driver" /\ err.at = "workload") =>
        /\ rpc # "work" /\ rpc # "raised"
        /\ RunEnded => (stack = <<>> /\ rpc = "next")

\* what the code does after a failed workload step: no further step, the
\* entered contexts are exited, and the exception ends the command
WorkloadFailureSkipsAndUnwinds ==
    /\ err.at = "workload" => rpc \in {"unwind", "raised"}
    /\ (err.at = "workload" /\ rpc = "raised") =>
           /\ stack = <<>>
           /\ step < Len(Workload(variant, todo[ri]))

\* C21: configuration runs never overlap.  Every resource of a run has been
\* released when the loop takes the next record, so a resource that exists
\* belongs to the run in progress, and at every moment at most one service
\* process, one NBD device attachment and one pool made by the harness
\* exist.
C21_RunsNeverOverlap ==
    /\ rpc = "next" => live = <<>>
    /\ \A i \in 1..Len(live) : live[i].run = ri
    /\ \A k \in {"service", "nbd", "pool"} :
          Cardinality({i \in 1..Len(live) : live[i].resource = k}) <= 1

\* a second run holds its service process, NBD device and pool
C21_Witness ==
    /\ ri = 2
    /\ \A k \in {"service", "nbd", "pool"} :
          \E i \in 1..Len(live) : live[i] = Held(2, k)

\* the phases of a run, read off its state: the service, the device, the
\* pool and the dataset are the resources INIT .. STORAGE_PROVISIONED acquire
NbdBacked(rec) == rec.driver \in {"slatedb-nbd", "zerofs"}
Kinds == <<"service", "nbd", "pool", "dataset">>
Provisioned ==
    SelectSeq(Acquired, LAMBDA r : r \in {"service", "nbd", "pool", "dataset"})
IsPrefix(p, q) == Len(p) <= Len(q) /\ \A k \in 1..Len(p) : p[k] = q[k]
RunComplete == ri > 0 /\ rpc \in {"next", "end"} /\ err = NoErr
PhasesInOrder(vs) ==
    (variant \in vs /\ ri > 0 /\ NbdBacked(todo[ri]) /\ err = NoErr) =>
        /\ IsPrefix(Provisioned, Kinds)
        /\ (rpc = "work" \/ step > 0) =>
              /\ Provisioned = Kinds
              /\ rpc = "work" => Top(stack) = "dataset"
        /\ RunComplete =>
              /\ Provisioned = Kinds
              /\ step > 0 /\ step = Len(Workload(variant, todo[ri]))
              /\ TornDown = Reverse(Acquired)
              /\ stack = <<>> /\ live = <<>>

\* C22: for a record of an NBD-backed driver, when no command fails, the
\* run goes through INIT, SERVICE_STARTED, DEVICE_ATTACHED,
\* STORAGE_PROVISIONED, WORKLOAD_RUNNING and TORN_DOWN in this order: it
\* acquires the service, the device attachment, the pool and the dataset
\* once each and in this order, no workload step runs before the dataset
\* exists, and the run ends with everything torn down.
C22_PhasesInOrder == PhasesInOrder({"main", "cli", "bench", "driver"})

\* main() of main.py and zfs_on_nbd_driver go through the phases as stated
MainPhasesInOrder == PhasesInOrder({"main", "driver"})
MainPhasesWitness ==
    /\ variant = "main" /\ RunComplete /\ ri = 2
    /\ NbdBacked(todo[ri]) /\ Provisioned = Kinds

\* the steps of the workload by the label of their bench scope: extract,
\* delete, sparse-allocate, zero-fill write, snapshot, trim, sync
WorkloadSteps ==
    <<"linux_kernel_source_extraction", "recursive_delete",
      "sparse_file_creation", "write_big_zeroes", "zfs_snapshot",
      "wait_for_trim_completion", "sync">>
IsStep(label) == \E k \in 1..Len(WorkloadSteps) : WorkloadSteps[k] = label
\* the steps whose command has completed in the current run, in order
Executed ==
    LET work == Workload(variant, todo[ri])
        done == [k \in 1..step |-> work[k].label]
    IN SelectSeq(done, IsStep)
\* the step samples the run's Bencher holds, in order
Recorded == SelectSeq(rbench, IsStep)

\* C23: in a failure-free run the workload steps execute in the order
\* extract, delete, sparse-allocate, zero-fill write, snapshot, trim, sync,
\* each exactly once, and each records its sample in the run's Bencher, so
\* that the sample list of the run holds the step samples in the same
\* order.
C23_WorkloadOrderRecorded ==
    (variant # "driver" /\ RunComplete /\ NbdBacked(todo[ri])) =>
        /\ Executed = WorkloadSteps
        /\ Recorded = WorkloadSteps

\* main() executes the steps in that order, each once (and prints the
\* timings); what cli() has recorded is always in the order of execution
MainWorkloadOrder ==
    /\ (variant = "main" /\ RunComplete) => Executed = WorkloadSteps
    /\ (variant = "main" /\ ri > 0) => IsPrefix(Executed, WorkloadSteps)
    /\ (variant = "cli" /\ ri > 0) =>
           \E n \in 0..Len(Executed) :
               Recorded = [k \in 1..n |-> Executed[k]] \/ Recorded = Executed
MainWorkloadWitness == variant = "main" /\ RunComplete /\ Executed = WorkloadSteps

(***************************************************************************)
(* The bench command of test/.../cli.py from its options to the end of the *)
(* matrix loop, as a sequence of things done to the outside: prompts,      *)
(* the sudo call, and for each record the change of directory and the      *)
(* emptying of the bucket.  (The run itself is the "bench" variant of the  *)
(* configuration run above.)                                               *)
(***************************************************************************)
MaxDrivers == 2

DriverNames == {"slatedb-nbd", "zerofs", "zerofs-plan9", "folder"}
S3Drivers == {"slatedb-nbd", "zerofs", "zerofs-plan9"}
EnvKeys ==
    <<"AWS_ENDPOINT", "AWS_ACCESS_KEY_ID", "AWS_SECRET_ACCESS_KEY",
      "AWS_BUCKET_NAME">>

\* Python truth of an optional string
Truthy(v) == v # None /\ v # PyStr("")

MissingKeys_none(e) == {}

\* the keys for which `key not in os.environ` holds
MissingKeys(e) == {k \in 1..Len(EnvKeys) : e[EnvKeys[k]] = "absent"}

\* click.confirm(..., abort=True) and its answer
Confirm(what, answer) == [op |-> "confirm", what |-> what, answer |-> answer]
Did(op, what) == [op |-> op, what |-> what, answer |-> TRUE]

StartInputs ==
    [drivers : UNION {[1..m -> DriverNames] : m \in 1..MaxDrivers},
     test_folder : {None, PyStr(""), PyStr("/mnt/t")}]

StartInit ==
    /\ StatsIdle /\ GeoIdle /\ CompareIdle /\ BencherIdle /\ MatrixIdle
    /\ RunIdle /\ ProvIdle /\ OwnIdle /\ LateIdle
    /\ opts \in StartInputs
    /\ environ \in [Range(EnvKeys) -> {"absent", "empty", "set"}]
    /\ spc = "start" /\ effects = <<>> /\ serr = "none" /\ taken = 0

\* lines 230-241: the folder driver needs test_folder and a confirmation
CheckFolder(answer) ==
    /\ spc = "start"
    /\ IF "folder" \in Range(opts.drivers)
       THEN IF ~Truthy(opts.test_folder)
            THEN /\ answer
                 /\ spc' = "raised" /\ serr' = "ValueError"
                 /\ UNCHANGED effects
            ELSE /\ effects' = Append(effects, Confirm("folder", answer))
                 /\ spc' = IF answer THEN "env" ELSE "aborted"
                 /\ serr' = IF answer THEN "none" ELSE "Abort"
       ELSE /\ answer
            /\ spc' = "env"
            /\ UNCHANGED <<effects, serr>>
    /\ UNCHANGED <<opts, environ, taken>>

\* lines 243-258: the four environment variables
CheckEnv ==
    /\ spc = "env"
    /\ IF MissingKeys(environ) # {}
       THEN spc' = "raised" /\ serr' = "ValueError"
       ELSE spc' = "confirm" /\ UNCHANGED serr
    /\ UNCHANGED <<opts, environ, effects, taken>>

\* lines 260-271: the confirmation that the bucket will be emptied
ConfirmBucket(answer) ==
    /\ spc = "confirm"
    /\ IF Range(opts.drivers) \cap S3Drivers # {}
       THEN /\ effects' = Append(effects, Confirm("bucket", answer))
            /\ spc' = IF answer THEN "sudo" ELSE "aborted"
            /\ serr' = IF answer THEN "none" ELSE "Abort"
       ELSE /\ answer
            /\ spc' = "sudo"
            /\ UNCHANGED <<effects, serr>>
    /\ UNCHANGED <<opts, environ, taken>>

\* line 274: subprocess.run(["sudo", "echo", "Thanks"], check=True)
Sudo(ok) ==
    /\ spc = "sudo"
    /\ effects' = Append(effects, Did("sudo", "echo"))
    /\ spc' = IF ok THEN "loop" ELSE "raised"
    /\ serr' = IF ok THEN "none" ELSE "CalledProcessError"
    /\ UNCHANGED <<opts, environ, taken>>

\* lines 276-300: one record of the matrix (one per driver with the default
\* lists): push_pop_cwd, empty_bucket, `continue`, and the exit of the stack
TakeRecord(ok) ==
    /\ spc = "loop"
    /\ taken < Len(opts.drivers)
    /\ taken' = taken + 1
    /\ effects' = effects \o <<Did("chdir", "package")>>
                     \o (IF ok THEN <<Did("empty_bucket", "AWS_BUCKET_NAME")>>
                         ELSE <<>>)
                     \o <<Did("chdir", "original")>>
    /\ spc' = IF ok THEN "loop" ELSE "raised"
    /\ serr' = IF ok THEN "none" ELSE "ClientError"
    /\ UNCHANGED <<opts, environ>>

\* lines 404-446: the summary and the comparison of an empty results list
Report ==
    /\ spc = "loop"
    /\ taken = Len(opts.drivers)
    /\ spc' = "done"
    /\ UNCHANGED <<opts, environ, effects, serr, taken>>

StartAction ==
    \/ \E answer \in BOOLEAN : CheckFolder(answer)
    \/ CheckEnv
    \/ \E answer \in BOOLEAN : ConfirmBucket(answer)
    \/ \E ok \in BOOLEAN : Sudo(ok)
    \/ \E ok \in BOOLEAN : TakeRecord(ok)
    \/ Report

StartNext ==
    StartAction
        /\ UNCHANGED <<statsVars, geoVars, cmpVars, benchVars, mxVars, runVars,
                       provVars, ownVars, lateVars>>

SpecStart == StartInit /\ [][StartNext]_vars

(***************************************************************************)
(* Claims about the start of the bench command (specification SpecStart).  *)
(***************************************************************************)
ConfigurationError ==
    \/ "folder" \in Range(opts.drivers) /\ opts.test_folder \in {None, PyStr("")}
    \/ \E k \in Range(EnvKeys) : environ[k] = "absent"

Before(e, f) ==
    \A i \in 1..Len(effects) :
        effects[i] = f => \E j \in 1..(i - 1) : effects[j] = e

\* C25: user data is deleted only after the matching confirmation: the
\* bucket is never emptied unless the bucket prompt was shown and confirmed
\* earlier in the invocation, and the test folder is never written to
\* unless the folder prompt was shown and confirmed.
C25_DeletionOnlyAfterConfirmation ==
    /\ Before(Confirm("bucket", TRUE), Did("empty_bucket", "AWS_BUCKET_NAME"))
    /\ Before(Confirm("folder", TRUE), Did("write", "test_folder"))

\* with an object-storage driver among the drivers the bucket is emptied
\* only after the confirmation; a declined prompt ends the command
BucketConfirmedForS3Drivers ==
    /\ Range(opts.drivers) \cap S3Drivers # {} =>
           Before(Confirm("bucket", TRUE), Did("empty_bucket", "AWS_BUCKET_NAME"))
    /\ spc = "aborted" => ~effects[Len(effects)].answer
    /\ \A i \in 1..Len(effects) :
           (effects[i].op = "confirm" /\ ~effects[i].answer) => i = Len(effects)

(***************************************************************************)
(* One call of a provisioning context manager that first looks whether its *)
(* resource is already in use: temporary_nbd_device (nbd.py),              *)
(* slate_db_background (drivers/slatedb_nbd.py, the version of test/ and   *)
(* the version of bench/) and zerofs_background (drivers/zerofs.py),       *)
(* entered on an ExitStack and left again.  use_working_dir keeps its      *)
(* default.  The environment of a process is carried as the two settings   *)
(* of interest.                                                            *)
(***************************************************************************)
Env(wal, cache) == [wal |-> wal, cache |-> cache]
NoEnv == Env("", "")
Cmd(name, env) == [cmd |-> name, env |-> env, out |-> ""]
\* the output of the check command: the clients of the device or the
\* process ids found
Checked(name, in_use) ==
    [cmd |-> name, env |-> NoEnv, out |-> IF in_use THEN "in use" ELSE ""]

\* os.environ.copy() followed by the assignments of slate_db_background;
\* the bench/ version has no object_store_cache parameter
slate_db_env(a) ==
    LET parent == a.parent
        wal == IF a.wal_enabled = None THEN parent.wal
               ELSE IF a.wal_enabled = PyBool(TRUE) THEN "true" ELSE "false"
        cache == IF a.version = "bench" \/ a.object_store_cache = None
                 THEN parent.cache
                 ELSE IF a.object_store_cache = PyBool(TRUE)
                 THEN "root_folder=/tmp/slatedb-object-store-cache"
                 ELSE "root_folder=None"
    IN Env(wal, cache)

\* subprocess.Popen(args, env=env): without env the child inherits os.environ
Popen_env(env, parent) == IF env = None THEN parent ELSE env

\* the env argument of the Popen call of each function: slate_db_background
\* builds slate_db_env and calls Popen(["cargo", "run", ...]) without env;
\* zerofs_background passes zerofs_env (os.environ.copy() plus settings
\* that are not carried here)
PopenArg(a) ==
    IF a.fn = "zerofs_background" THEN a.parent ELSE None

AlreadyInUse_ignored(in_use, auto) == "proceed"

\* `if clients:` / `if existing_process.stdout.splitlines():` and the
\* automatically_disconnect / automatically_kill switch
AlreadyInUse(in_use, auto) ==
    IF in_use
    THEN IF auto THEN "remediate" ELSE "RuntimeError"
    ELSE "proceed"

CheckCmd(fn) == IF fn = "temporary_nbd_device" THEN "nbd-client -c" ELSE "pgrep"
RemedyCmd(fn) == IF fn = "temporary_nbd_device" THEN "nbd-client -d" ELSE "pkill"
LaunchCmd(fn) == IF fn = "temporary_nbd_device" THEN "nbd-client" ELSE "Popen"
ExitCmd(fn) == IF fn = "temporary_nbd_device" THEN "nbd-client -d" ELSE "terminate"

Tri == {None, PyBool(TRUE), PyBool(FALSE)}
ProvInputs ==
    {a \in [fn : {"temporary_nbd_device", "slate_db_background", "zerofs_background"},
            version : {"test", "bench"},
            auto : BOOLEAN,
            wal_enabled : Tri,
            object_store_cache : Tri,
            parent : {Env("unset", "unset"), Env("true", "unset")}] :
        /\ a.fn # "slate_db_background" => (a.version = "test" /\ a.object_store_cache = None)
        /\ a.fn = "temporary_nbd_device" => a.wal_enabled = None
        /\ a.version = "bench" => a.object_store_cache = None}

ProvInit ==
    /\ StatsIdle /\ GeoIdle /\ CompareIdle /\ BencherIdle /\ MatrixIdle
    /\ RunIdle /\ StartIdle /\ OwnIdle /\ LateIdle
    /\ pin \in ProvInputs
    /\ inUse \in BOOLEAN
    /\ ppc = "check" /\ cmds = <<>> /\ perr = "none" /\ registered = FALSE

\* the check whether the resource is in use, and what follows from it
ProvCheck ==
    /\ ppc = "check"
    /\ IF pin.fn = "zerofs_background" /\ pin.wal_enabled # None
       THEN /\ ppc' = "raised" /\ perr' = "NotImplementedError"
            /\ UNCHANGED cmds
       ELSE /\ cmds' = Append(cmds, Checked(CheckCmd(pin.fn), inUse))
            /\ LET o == AlreadyInUse(inUse, pin.auto) IN
               /\ ppc' = IF o = "RuntimeError" THEN "raised"
                         ELSE IF o = "remediate" THEN "remediate"
                         ELSE "build"
               /\ perr' = IF o = "RuntimeError" THEN "RuntimeError" ELSE "none"
    /\ UNCHANGED <<pin, inUse, registered>>

\* sudo nbd-client -d / pkill -f, with check=True
ProvRemediate(ok) ==
    /\ ppc = "remediate"
    /\ cmds' = Append(cmds, Cmd(RemedyCmd(pin.fn), NoEnv))
    /\ inUse' = IF ok THEN FALSE ELSE inUse
    /\ ppc' = IF ok THEN "build" ELSE "raised"
    /\ perr' = IF ok THEN "none" ELSE "CalledProcessError"
    /\ UNCHANGED <<pin, registered>>

\* what comes before the launch: the environment is prepared and the
\* service is built (git pull and cargo build, check=True); the options of
\* nbd-client need no command
ProvBuild(ok) ==
    /\ ppc = "build"
    /\ IF pin.fn = "temporary_nbd_device"
       THEN /\ ok
            /\ ppc' = "launch"
            /\ UNCHANGED <<cmds, perr>>
       ELSE /\ cmds' = Append(cmds, Cmd("cargo build", NoEnv))
            /\ ppc' = IF ok THEN "launch" ELSE "raised"
            /\ perr' = IF ok THEN "none" ELSE "CalledProcessError"
    /\ UNCHANGED <<pin, inUse, registered>>

\* the connection of the device (check=True) or the launch of the service
\* process; the context manager yields and the ExitStack registers its exit
ProvLaunch(ok) ==
    /\ ppc = "launch"
    /\ ok \/ pin.fn = "temporary_nbd_device"
    /\ cmds' = Append(cmds,
                      Cmd(LaunchCmd(pin.fn),
                          IF pin.fn = "temporary_nbd_device" THEN NoEnv
                          ELSE Popen_env(PopenArg(pin), pin.parent)))
    /\ inUse' = IF ok THEN TRUE ELSE inUse
    /\ registered' = ok
    /\ ppc' = IF ok THEN "yield" ELSE "raised"
    /\ perr' = IF ok THEN "none" ELSE "CalledProcessError"
    /\ UNCHANGED pin

\* the exit of the context manager: the finally block
ProvExit ==
    /\ ppc = "yield"
    /\ cmds' = Append(cmds, Cmd(ExitCmd(pin.fn), NoEnv))
    /\ inUse' = FALSE
    /\ registered' = FALSE
    /\ ppc' = "exited"
    /\ UNCHANGED <<pin, perr>>

ProvAction ==
    \/ ProvCheck
    \/ \E ok \in BOOLEAN : ProvRemediate(ok)
    \/ \E ok \in BOOLEAN : ProvBuild(ok)
    \/ \E ok \in BOOLEAN : ProvLaunch(ok)
    \/ ProvExit

ProvNext ==
    ProvAction
        /\ UNCHANGED <<statsVars, geoVars, cmpVars, benchVars, mxVars, runVars,
                       startVars, ownVars, lateVars>>

SpecProv == ProvInit /\ [][ProvNext]_vars

(***************************************************************************)
(* Claims about provisioning (specification SpecProv).                     *)
(***************************************************************************)
Names == [k \in 1..Len(cmds) |-> cmds[k].cmd]
\* the check found the resource in use
FoundInUse == Len(cmds) >= 1 /\ cmds[1].out = "in use"

\* C26: when the NBD device or the service process is found already in use
\* at provisioning time: with auto-remediation (the default) the existing
\* client or process is disconnected or killed before the new connection
\* or launch is made; without it RuntimeError is raised and nothing else
\* is done: no disconnect or kill, no connection or launch, and no
\* teardown is registered.
C26_AlreadyInUse ==
    FoundInUse =>
        IF pin.auto
        THEN /\ Len(cmds) >= 2 => Names[2] = RemedyCmd(pin.fn)
             /\ \A k \in 1..Len(cmds) :
                    Names[k] = LaunchCmd(pin.fn) =>
                        \E j \in 1..(k - 1) : Names[j] = RemedyCmd(pin.fn)
             /\ Len(cmds) = 1 => (ppc = "remediate" /\ perr = "none")
        ELSE /\ Len(cmds) = 1
             /\ ppc = "raised" /\ perr = "RuntimeError"
             /\ inUse /\ ~registered

\* the device was in use, was disconnected and then connected anew
C26_Witness ==
    /\ FoundInUse /\ pin.auto /\ pin.fn = "temporary_nbd_device"
    /\ ppc = "yield" /\ registered
    /\ Names = <<"nbd-client -c", "nbd-client -d", "nbd-client">>

\* the service was found running and auto-remediation is off
C26_WitnessFatal ==
    /\ FoundInUse /\ ~pin.auto /\ pin.fn = "slate_db_background"
    /\ ppc = "raised"

Launches == SelectSeq(cmds, LAMBDA c : c.cmd = "Popen")

\* C27: the configuration record parameterizes provisioning: whenever
\* slate_db_background is called with wal_enabled (or object_store_cache)
\* true or false, the service process is launched with an environment in
\* which SLATEDB_WAL_ENABLED (SLATEDB_OBJECT_STORE_CACHE_OPTIONS) carries
\* that value.
C27_ServiceEnvironmentCarriesRecord ==
    pin.fn = "slate_db_background" =>
        \A k \in 1..Len(Launches) :
            /\ pin.wal_enabled # None => Launches[k].env.wal = slate_db_env(pin).wal
            /\ pin.object_store_cache # None =>
                   Launches[k].env.cache = slate_db_env(pin).cache

\* what the code does: the service is launched with the environment of the
\* harness itself, whatever the arguments
ServiceInheritsEnvironment ==
    \A k \in 1..Len(Launches) : Launches[k].env = pin.parent

(***************************************************************************)
(* Claims about the results list (specification SpecCompare).              *)
(***************************************************************************)
\* C28 as stated: once a RunResult has been appended to the results list
\* it is read-only: neither later runs nor the summary and comparison
\* passes change its configuration record, its sample list or its set of
\* fields.
C28_RunResultReadOnly ==
    [][\A i \in 1..Len(results) :
          /\ i <= Len(results')
          /\ results'[i] = results[i]]_vars

\* C28, amended: once a RunResult has been appended to the results list,
\* its configuration record and its sample list are read-only: neither
\* later runs nor the summary and comparison passes change them.  The
\* summary pass adds the field `summary` to the RunResult and changes
\* nothing else of it.
C28_ConfigAndSamplesReadOnly ==
    [][\A i \in 1..Len(results) :
          /\ i <= Len(results')
          /\ results'[i].config = results[i].config
          /\ results'[i].tests = results[i].tests
          /\ DOMAIN results[i] \subseteq DOMAIN results'[i]
          /\ DOMAIN results'[i] \subseteq DOMAIN results[i] \cup {"summary"}]_vars

\* the summary pass of cli() ran over two RunResults, one of which holds
\* the wrapper sample the pass skips
C28_Witness ==
    /\ cpc = "cli_summary"
    /\ Len(results) >= 2
    /\ \A i \in 1..Len(results) : "summary" \in DOMAIN results[i]
    /\ \E i \in 1..Len(results) : Len(results[i].tests) = 2

(***************************************************************************)
(* Object identity.  Bencher and RunningGeometricStats are dataclasses     *)
(* whose one field has a default_factory; a RunResult holds                *)
(* bencher.results itself, not a copy.  Here the lists and the             *)
(* RunningStats objects live in a heap and are held by address, so that    *)
(* two holders of one object see each other's changes.                     *)
(***************************************************************************)
MaxOwnRuns == 2
MaxOwnSamples == 2
MaxAccs == 3
MaxFeeds == 2

\* a new object at a new address
Alloc(heap, v) == [heap |-> Append(heap, v), ref |-> Len(heap) + 1]
\* the first object made is handed out again
Shared(heap, v) == IF heap = <<>> THEN Alloc(heap, v) ELSE [heap |-> heap, ref |-> 1]

Bencher_init_shared(heap) == Shared(heap, <<>>)

\* Bencher(): results = field(default_factory=list)
Bencher_init(heap) == Alloc(heap, <<>>)

RunningGeometricStats_init_shared(heap) == Shared(heap, RunningStats_new)

\* RunningGeometricStats(): inner = field(default_factory=RunningStats)
RunningGeometricStats_init(heap) == Alloc(heap, RunningStats_new)

OwnSamples == {OpSample(QInt(2)), OpSample(QInt(8))}

LoopInit ==
    /\ StatsIdle /\ GeoIdle /\ CompareIdle /\ BencherIdle /\ MatrixIdle
    /\ RunIdle /\ StartIdle /\ ProvIdle /\ LateIdle
    /\ listHeap = <<>> /\ statsHeap = <<>> /\ loopBencher = None /\ resultRefs = <<>>
    /\ pushedIn = <<>> /\ accs = <<>> /\ opc = "loop"

\* the head of the loop body: bencher = Bencher()
LoopBencher ==
    /\ opc = "loop"
    /\ loopBencher = None
    /\ Len(pushedIn) < MaxOwnRuns
    /\ LET new == Bencher_init(listHeap) IN
       /\ listHeap' = new.heap
       /\ loopBencher' = [results |-> new.ref]
    /\ pushedIn' = Append(pushedIn, <<>>)
    /\ UNCHANGED <<statsHeap, resultRefs, accs, opc>>

\* a bench scope of the run is left: self.results.append(sample)
LoopPush(sample) ==
    /\ opc = "loop"
    /\ loopBencher # None
    /\ Len(pushedIn[Len(pushedIn)]) < MaxOwnSamples
    /\ listHeap' = [listHeap EXCEPT ![loopBencher.results] = Append(@, sample)]
    /\ pushedIn' = [pushedIn EXCEPT ![Len(pushedIn)] = Append(@, sample)]
    /\ UNCHANGED <<statsHeap, loopBencher, resultRefs, accs, opc>>

\* results.append({"config": test, "tests": bencher.results})
LoopAppend ==
    /\ opc = "loop"
    /\ loopBencher # None
    /\ resultRefs' = Append(resultRefs, loopBencher.results)
    /\ loopBencher' = None
    /\ UNCHANGED <<listHeap, statsHeap, pushedIn, accs, opc>>

LoopAction ==
    \/ LoopBencher
    \/ \E sample \in OwnSamples : LoopPush(sample)
    \/ LoopAppend

LoopNext ==
    LoopAction
        /\ UNCHANGED <<statsVars, geoVars, cmpVars, benchVars, mxVars, runVars,
                       startVars, provVars, lateVars>>

SpecLoop == LoopInit /\ [][LoopNext]_vars

\* the passes after the loop: accumulators are made and fed
AccInit ==
    /\ StatsIdle /\ GeoIdle /\ CompareIdle /\ BencherIdle /\ MatrixIdle
    /\ RunIdle /\ StartIdle /\ ProvIdle /\ LateIdle
    /\ listHeap = <<>> /\ statsHeap = <<>> /\ loopBencher = None /\ resultRefs = <<>>
    /\ pushedIn = <<>> /\ accs = <<>> /\ opc = "report"

\* stats = RunningGeometricStats(), or one value of
\* {value: RunningGeometricStats() for value in values}
AccNew ==
    /\ opc = "report"
    /\ Len(accs) < MaxAccs
    /\ LET new == RunningGeometricStats_init(statsHeap) IN
       /\ statsHeap' = new.heap
       /\ accs' = Append(accs, [inner |-> new.ref])
    /\ UNCHANGED <<listHeap, loopBencher, resultRefs, pushedIn, opc>>

\* stats.push(test["elapsed"]) on the accumulator a: self.inner.push(math.log(x))
AccFeed(a, x) ==
    /\ opc = "report"
    /\ a \in 1..Len(accs)
    /\ statsHeap[accs[a].inner].k < MaxFeeds
    /\ LET self == [inner |-> statsHeap[accs[a].inner]]
           r == RunningGeometricStats_push(self, x)
       IN
       statsHeap' = [statsHeap EXCEPT ![accs[a].inner] = r.self.inner]
    /\ UNCHANGED <<listHeap, loopBencher, resultRefs, pushedIn, accs, opc>>

AccAction ==
    \/ AccNew
    \/ \E a \in 1..MaxAccs, x \in {QInt(2), QInt(8)} : AccFeed(a, x)

AccNext ==
    AccAction
        /\ UNCHANGED <<statsVars, geoVars, cmpVars, benchVars, mxVars, runVars,
                       startVars, provVars, lateVars>>

SpecAcc == AccInit /\ [][AccNext]_vars

(***************************************************************************)
(* Claims about ownership (specifications SpecLoop and SpecAcc).           *)
(***************************************************************************)
\* the sample list of run i: that of its RunResult, or of its Bencher
\* while the run is in progress
SamplesOfRun(i) ==
    IF i <= Len(resultRefs) THEN listHeap[resultRefs[i]]
    ELSE listHeap[loopBencher.results]

\* C29: each configuration run uses its own Bencher whose sample list
\* starts empty, so the RunResult of run i holds exactly the samples
\* recorded during run i, in recording order, and no sample recorded
\* during another run.
C29_OwnBencherPerRun ==
    \A i \in 1..Len(pushedIn) : SamplesOfRun(i) = pushedIn[i]

\* two runs have recorded different samples and both RunResults exist
C29_Witness ==
    /\ Len(resultRefs) = 2
    /\ Len(pushedIn[1]) = 2 /\ Len(pushedIn[2]) >= 1
    /\ pushedIn[1] # pushedIn[2]

Inner(a) == statsHeap[accs[a].inner]

\* C30: each RunningGeometricStats owns its own RunningStats, never shared
\* or aliased: pushing a value into the accumulator of one group leaves k,
\* mean and S of every other accumulator unchanged.
C30_AccumulatorsNotAliased ==
    /\ [](\A a, b \in 1..Len(accs) : a # b => accs[a].inner # accs[b].inner)
    /\ [][\A a, b \in 1..Len(accs) :
             (a # b /\ statsHeap'[accs'[a].inner] # Inner(a)) =>
                 statsHeap'[accs'[b].inner] = Inner(b)]_vars

\* one accumulator has been fed twice while the other is still empty
C30_Witness ==
    /\ Len(accs) >= 2
    /\ Inner(1).k = 2 /\ Inner(2).k = 0 /\ Inner(2).mean = None

\* the elapsed times of the workload-step samples of a sample list
StepElapsed(tests) ==
    LET steps == SelectSeq(tests, LAMBDA t : t.label # "overall_test_duration")
    IN [k \in 1..Len(steps) |-> steps[k].elapsed]

\* the step samples of the RunResults with the indices J, in list order
RECURSIVE StepsOf(_, _)
StepsOf(J, i) ==
    IF i > Len(results) THEN <<>>
    ELSE (IF i \in J THEN StepElapsed(results[i].tests) ELSE <<>>)
             \o StepsOf(J, i + 1)

RECURSIVE FedWith(_, _)
FedWith(acc, elapsed) ==
    IF elapsed = <<>> THEN acc
    ELSE FedWith(AccPush(acc, elapsed[1]), Tail(elapsed))

\* C31: no sample with the wrapper label overall_test_duration contributes
\* to a per-run summary or to a dimension comparison: the summary of a
\* RunResult is that of its workload-step samples, and every accumulator of
\* a comparison has received only elapsed times of workload-step samples
\* of RunResults whose configuration has the accumulator's value.
C31_WrapperNeverCounted ==
    /\ \A i \in 1..Len(results) :
          "summary" \in DOMAIN results[i] =>
              LET acc == FedWith(NewAcc, StepElapsed(results[i].tests)) IN
              /\ results[i].summary.geometric_mean =
                     RunningGeometricStats_mean(acc.stats)
              /\ results[i].summary.geometric_standard_deviation =
                     RunningGeometricStats_standard_deviation(acc.stats).val
    /\ \A c \in 1..Len(report) :
          report[c].compared =>
              \A v \in DOMAIN report[c].map :
                  \E J \in SUBSET {i \in 1..Len(results) :
                                      results[i].config[report[c].key] = v} :
                      report[c].map[v].fed = StepsOf(J, 1)

\* cli() has summarised and compared a results list whose last RunResult
\* holds a step sample and the wrapper sample
C31_Witness ==
    /\ cpc = "cli_done"
    /\ report[1].compared
    /\ Len(results[Len(results)].tests) = 2
    /\ \E v \in DOMAIN report[1].map : Len(report[1].map[v].fed) = 1


(***************************************************************************)
(* Unwinding after a failed teardown (specification SpecRun).              *)
(***************************************************************************)
AcquiredAt(r) == CHOOSE a \in 1..Len(Acquired) : Acquired[a] = r

\* C32: the unwind list is drained completely on every exit path.  When a
\* teardown itself failed (the NBD disconnect, the pool destroy), the run
\* ends with nothing left on the stack, and the teardown of every resource
\* acquired before one whose teardown ran (service process, working
\* directory) has been executed before the error leaves the run.
C32_UnwindDrainedAfterTeardownFailure ==
    (err.at = "teardown" /\ RunEnded) =>
        /\ rpc = "raised"
        /\ stack = <<>>
        /\ \A t \in 1..Len(TornDown) :
              \A a \in 1..Len(Acquired) :
                  a < AcquiredAt(TornDown[t]) =>
                      \E u \in 1..Len(TornDown) :
                          u > t /\ TornDown[u] = Acquired[a]

C32_Witness ==
    /\ variant = "main" /\ rpc = "raised" /\ err.at = "teardown"
    /\ TornDown = <<"dataset", "pool", "nbd", "service", "cwd">>


(***************************************************************************)
(* The comparison pass and exceptions (specification SpecCompare).         *)
(***************************************************************************)
\* C33: the comparison pass completes without raising for every results
\* list the matrix can produce and for every dimension of the fixed list,
\* also when the observed values of a dimension mix null with non-null
\* values (compression 'off' next to a named algorithm) and when the key is
\* the singular record key (driver) rather than the plural option name.
C33_ComparisonNeverRaises ==
    /\ cpc \notin {"bench_raised", "cli_raised"}
    /\ \A c \in 1..Len(report) : report[c].exc = "none"

\* what the code does: compare of test/.../cli.py raises exactly when the
\* observed values of a dimension are of different types, and compare of
\* bench/.../cli.py exactly when the key is no attribute of the parsed
\* options or the last run's value is not among the option's values
ComparisonRaisesOnlyOnMixedOrMissing ==
    /\ cpc = "bench_raised" =>
          LET o == report[Len(report)] IN
          /\ o.exc = "TypeError"
          /\ \E a, b \in Observed(o.key) : TypeOf(a) # TypeOf(b)
    /\ cpc = "cli_raised" =>
          \/ report[1].exc = "AttributeError" /\ report[1].key \notin DOMAIN args
          \/ report[1].exc = "KeyError"


(***************************************************************************)
(* Signs of the dispersion measures (specification SpecGeo: the inner      *)
(* RunningStats of g receives the logarithms of the values pushed).        *)
(***************************************************************************)
\* 2^e or 2^sqrt(e) compared with 1, e = v[2] / v[3] with v[3] > 0
AtLeastOne(v) == v[2] >= 0
IsOne(v) == v[2] = 0
AllEqual(s) == \A i, j \in 1..Len(s) : s[i] = s[j]

\* C34: after any sequence of pushes the accumulated sum of squared
\* deviations S is non-negative, hence variance >= 0, standard_deviation is
\* always defined (the square root never fails), and the geometric standard
\* deviation is >= 1, being exactly 1 when fewer than two values were
\* pushed or all pushed values are equal.
C34_DispersionNonNegative ==
    LET var == RunningStats_variance(g.inner)
        sd == RunningStats_standard_deviation(g.inner)
        gsd == RunningGeometricStats_standard_deviation(g)
    IN /\ QLe(Zero, g.inner.S)
       /\ var.exc = "none" /\ QLe(Zero, var.val)
       /\ sd.exc = "none"
       /\ gsd.exc = "none" /\ AtLeastOne(gsd.val)
       /\ (Len(gxs) < 2 \/ AllEqual(gxs)) => IsOne(gsd.val)

C34_Witness ==
    /\ Len(gxs) >= 3 /\ ~AllEqual(gxs)
    /\ QLt(Zero, g.inner.S)
    /\ ~IsOne(RunningGeometricStats_standard_deviation(g).val)
    /\ RunningGeometricStats_standard_deviation(g).val[1] = "pow2sqrt"


(***************************************************************************)
(* The working directory across a run (specification SpecRun).             *)
(***************************************************************************)
\* C35: after the resources of a configuration run have been unwound, on
\* success or on failure at any step, the working directory of the process
\* is the one in effect before the run started, whatever directories the
\* service launch, the dataset mount and the Plan 9 setup made current in
\* between.  (A configuration run is an iteration of the loop of main(),
\* cli() or bench(); zfs_on_nbd_driver alone is a part of one.)
C35_WorkingDirectoryRestored ==
    (variant # "driver" /\ RunEnded /\ ri > 0) => wd.cwd = wd.before

C35_Witness ==
    /\ rpc = "raised" /\ ri > 0
    /\ wd.before = "home" /\ wd.cwd = "home"
    /\ {"pkg", "/tmp/ZeroFS", "/mnt/pool/test", "/"} \subseteq wd.visited

\* a service launch that failed leaves a directory of its own current until
\* the unwinding restores the first one
C35_WitnessServiceFailure ==
    /\ rpc = "raised" /\ err.at = "setup"
    /\ wd.before = "home" /\ wd.cwd = "home"
    /\ "/tmp/ZeroFS" \in wd.visited /\ "service" \notin Range(Acquired)


(***************************************************************************)
(* bench_trim: `zpool trim`, then the status of the pool is read inside    *)
(* the bench scope "wait_for_trim_completion" until it no longer mentions  *)
(* trimming, at most range(1, 61) times.                                   *)
(***************************************************************************)
LastAttempt == 60

\* what `zpool status` can print about the trim
StatusTexts == {"state: ONLINE", "(trimming)", "(TRIMMING)"}

\* str.lower
str_lower(t) ==
    IF t = "(TRIMMING)" THEN "(trimming)"
    ELSE IF t = "state: ONLINE" THEN "state: online"
    ELSE t

\* "trimming" in status.stdout.lower()
MentionsTrimming(out) == str_lower(out[2]) = "(trimming)"

\* a mutant of AfterPoll: a trim still running after the last read is an error
AfterPoll_timeout(a, out) ==
    IF out = None THEN "raised"
    ELSE IF ~MentionsTrimming(out) THEN "returned"
    ELSE IF a = LastAttempt THEN "raised"
    ELSE "poll"

\* where bench_trim is after read number a of the status: check=True raises
\* when the command failed (out = None), `break` leaves the loop, and so
\* does the end of the range
AfterPoll(a, out) ==
    IF out = None THEN "raised"
    ELSE IF ~MentionsTrimming(out) THEN "returned"
    ELSE IF a = LastAttempt THEN "returned"
    ELSE "poll"

TrimInit ==
    /\ StatsIdle /\ GeoIdle /\ CompareIdle /\ BencherIdle /\ MatrixIdle
    /\ RunIdle /\ StartIdle /\ ProvIdle /\ OwnIdle /\ DlIdle
    /\ tpc = "start" /\ attempt = 0 /\ status = None /\ trecorded = <<>>
    /\ terr = "none"

\* subprocess.run(["sudo", "zpool", "trim", zpool], check=True)
TrimCommand(ok) ==
    /\ tpc = "start"
    /\ tpc' = IF ok THEN "poll" ELSE "raised"
    /\ terr' = IF ok THEN terr ELSE "CalledProcessError"
    /\ UNCHANGED <<attempt, status, trecorded>>

\* one turn of the for loop; the bench scope records its sample when the
\* with block is left, by break, by the end of the loop or by an exception
TrimPoll(out) ==
    /\ tpc = "poll"
    /\ attempt < LastAttempt
    /\ attempt' = attempt + 1
    /\ status' = out
    /\ tpc' = AfterPoll(attempt + 1, out)
    /\ trecorded' = IF tpc' = "poll" THEN trecorded
                    ELSE Append(trecorded, "wait_for_trim_completion")
    /\ terr' = IF out = None THEN "CalledProcessError" ELSE terr

TrimAction ==
    \/ \E ok \in BOOLEAN : TrimCommand(ok)
    \/ \E out \in {None} \cup {PyStr(t) : t \in StatusTexts} : TrimPoll(out)

TrimNext ==
    TrimAction
        /\ UNCHANGED <<statsVars, geoVars, cmpVars, benchVars, mxVars, runVars,
                       startVars, provVars, ownVars, dlVars>>

\* every command the function runs returns, so the function takes its next
\* step as long as it has one
SpecTrim == TrimInit /\ [][TrimNext]_vars /\ WF_vars(TrimNext)

TrimEnded == tpc \in {"returned", "raised"}

\* C36: bench_trim always terminates: it reads the pool status at most 60
\* times, stops at the first read whose output no longer mentions trimming,
\* and after the 60th read it returns normally, with the
\* wait_for_trim_completion sample recorded exactly once, even if the trim
\* is still in progress (no timeout error is raised).
C36_TrimTerminates ==
    /\ [](/\ attempt <= LastAttempt
          /\ (tpc = "poll" /\ attempt > 0) => MentionsTrimming(status)
          /\ (status # None /\ ~MentionsTrimming(status)) => tpc = "returned"
          /\ (attempt = LastAttempt /\ status # None) => tpc = "returned"
          /\ tpc = "returned" =>
                /\ trecorded = <<"wait_for_trim_completion">>
                /\ terr = "none"
          /\ Len(trecorded) <= 1)
    /\ <>TrimEnded

C36_Witness ==
    /\ tpc = "returned" /\ attempt = LastAttempt
    /\ status # None /\ MentionsTrimming(status)
    /\ trecorded = <<"wait_for_trim_completion">>


(***************************************************************************)
(* maybe_download_file: the kernel archive, cached in the temporary        *)
(* directory under a name made of the kernel version.                      *)
(***************************************************************************)
KernelVersions == {"6.16", "6.15"}

\* f"linux-{kernel_version}.tar.xz"
ArchiveName(kernel_version) ==
    IF kernel_version = "6.16" THEN "linux-6.16.tar.xz" ELSE "linux-6.15.tar.xz"

\* what a file or a response body can hold: the archive, an archive that was
\* altered, an error page, and the beginning of the archive
Contents == {"archive", "altered", "error page", "archive (cut short)"}

\* hashlib.sha256(content).hexdigest(): a digest per content
hashlib_sha256(content) ==
    IF content = "archive" THEN "1a4be2fe"
    ELSE IF content = "altered" THEN "9c01d5aa"
    ELSE IF content = "error page" THEN "e3b0c442"
    ELSE "5f70bf18"

ChecksumOk_skipped(content, sha256_checksum) == TRUE

\* not (file_hash != sha256_checksum)
ChecksumOk(content, sha256_checksum) == hashlib_sha256(content) = sha256_checksum

\* what the server does with the request: no answer, or a status and a body
Answers ==
    {[kind |-> "ConnectError", status_code |-> 0, content |-> ""]}
    \cup {[kind |-> "response", status_code |-> 200, content |-> c] :
             c \in {"archive", "altered", "error page"}}
    \cup {[kind |-> "response", status_code |-> 404, content |-> "error page"]}

\* the temporary directory before the call: empty, or one file in it
TempDirs ==
    {[n \in {} |-> ""]}
    \cup {[n \in {ArchiveName(v)} |-> c] : v \in KernelVersions, c \in Contents}

\* maybe_path.open("wb") and f.write(response.content)
WriteFile(dir, name, content) ==
    [n \in DOMAIN dir \cup {name} |-> IF n = name THEN content ELSE dir[n]]

DlInit ==
    /\ StatsIdle /\ GeoIdle /\ CompareIdle /\ BencherIdle /\ MatrixIdle
    /\ RunIdle /\ StartIdle /\ ProvIdle /\ OwnIdle /\ TrimIdle
    /\ tempdir \in TempDirs
    /\ din \in [kernel_version : KernelVersions,
                sha256_checksum : {hashlib_sha256("archive"), hashlib_sha256("altered")},
                answer : Answers,
                tempdir0 : {tempdir}]
    /\ dpc = "start" /\ response = NoResponse /\ requests = 0
    /\ hashed = <<>> /\ dout = NoOutcome

\* if not maybe_path.exists(): ... return maybe_path
DlExists ==
    /\ dpc = "start"
    /\ IF ArchiveName(din.kernel_version) \in DOMAIN tempdir
       THEN /\ dpc' = "returned"
            /\ dout' = Returned(ArchiveName(din.kernel_version))
       ELSE /\ dpc' = "get"
            /\ UNCHANGED dout
    /\ UNCHANGED <<din, tempdir, response, requests, hashed>>

\* response = httpx.get(...)
DlGet ==
    /\ dpc = "get"
    /\ requests' = requests + 1
    /\ IF din.answer.kind = "response"
       THEN /\ response' = [status_code |-> din.answer.status_code,
                            content |-> din.answer.content]
            /\ dpc' = "fetched"
            /\ UNCHANGED dout
       ELSE /\ dout' = Raised(din.answer.kind)
            /\ dpc' = "raised"
            /\ UNCHANGED response
    /\ UNCHANGED <<din, tempdir, hashed>>

\* response.raise_for_status(), the checksum, and the write, which can fail
\* after the file was opened for writing
DlStore(written) ==
    /\ dpc = "fetched"
    /\ LET name == ArchiveName(din.kernel_version) IN
       IF response.status_code >= 400
       THEN /\ written
            /\ dout' = Raised("HTTPStatusError")
            /\ dpc' = "raised"
            /\ UNCHANGED <<tempdir, hashed>>
       ELSE /\ hashed' = Append(hashed, response.content)
            /\ IF ~ChecksumOk(response.content, din.sha256_checksum)
               THEN /\ written
                    /\ dout' = Raised("ValueError")
                    /\ dpc' = "raised"
                    /\ UNCHANGED tempdir
               ELSE IF written
               THEN /\ tempdir' = WriteFile(tempdir, name, response.content)
                    /\ dout' = Returned(name)
                    /\ dpc' = "returned"
               ELSE /\ tempdir' = WriteFile(tempdir, name, "archive (cut short)")
                    /\ dout' = Raised("OSError")
                    /\ dpc' = "raised"
    /\ UNCHANGED <<din, response, requests>>

DlAction ==
    \/ DlExists
    \/ DlGet
    \/ \E written \in BOOLEAN : DlStore(written)

DlNext ==
    DlAction
        /\ UNCHANGED <<statsVars, geoVars, cmpVars, benchVars, mxVars, runVars,
                       startVars, provVars, ownVars, trimVars>>

SpecDownload == DlInit /\ [][DlNext]_vars

DlEnded == dpc \in {"returned", "raised"}

\* C37: maybe_download_file writes the kernel archive into the cache of the
\* temporary directory only when the SHA-256 of the downloaded content
\* equals the expected checksum; on a mismatch it raises ValueError and
\* leaves no file at the cache path; when a file with the expected name
\* already exists it is returned without any download and without its hash
\* being checked.
C37_CacheOnlyVerifiedDownloads ==
    LET name == ArchiveName(din.kernel_version)
        mismatch == /\ response # NoResponse /\ response.status_code < 400
                    /\ hashlib_sha256(response.content) # din.sha256_checksum
    IN /\ tempdir # din.tempdir0 =>
              /\ response # NoResponse
              /\ hashlib_sha256(response.content) = din.sha256_checksum
              /\ \A n \in DOMAIN din.tempdir0 : n \in DOMAIN tempdir /\ tempdir[n] = din.tempdir0[n]
              /\ DOMAIN tempdir \subseteq DOMAIN din.tempdir0 \cup {name}
       /\ (mismatch /\ DlEnded) =>
              /\ dout = Raised("ValueError")
              /\ name \notin DOMAIN tempdir
       /\ dout.exc = "ValueError" => mismatch
       /\ (name \in DOMAIN din.tempdir0 /\ DlEnded) =>
              /\ dout = Returned(name)
              /\ requests = 0 /\ hashed = <<>>
              /\ tempdir = din.tempdir0

C37_Witness ==
    /\ dpc = "raised" /\ dout = Raised("ValueError")
    /\ response.content = "altered" /\ din.sha256_checksum = hashlib_sha256("archive")
    /\ ArchiveName(din.kernel_version) \notin DOMAIN tempdir
    /\ DOMAIN tempdir # {}

\* a verified download is stored, and a file found is returned unchecked
\* whatever it holds
C37_WitnessStored ==
    /\ dpc = "returned" /\ requests = 1
    /\ tempdir[ArchiveName(din.kernel_version)] = "archive"
    /\ tempdir # din.tempdir0

C37_WitnessFound ==
    /\ dpc = "returned" /\ requests = 0
    /\ tempdir[ArchiveName(din.kernel_version)] = "error page"


(***************************************************************************)
(* From the compression option to the dataset (specification SpecMatrix).  *)
(***************************************************************************)
\* test.get(key)
dict_get(d, key) == IF key \in DOMAIN d THEN d[key] ELSE None

\* temporary_zfs_dataset: the options of `zfs create`, each "-o" followed
\* by its property
zfs_create_options(mountpoint, encryption, compression) ==
    << <<"-o">>, <<"mountpoint=", mountpoint>> >>
    \o (IF encryption # None /\ encryption # PyBool(FALSE)
        THEN << <<"-o">>, <<"encryption=", "on">>,
                <<"-o">>, <<"keylocation=", "file:///tmp/zfs_test.key">>,
                <<"-o">>, <<"keyformat=", "passphrase">> >>
        ELSE <<>>)
    \o (IF Truthy(compression)
        THEN << <<"-o">>, <<"compression=", compression[2]>> >>
        ELSE <<>>)

\* the options of the dataset of the run of a record
DatasetOptions(test) ==
    zfs_create_options("/mnt/pool/test", dict_get(test, "encryption"),
                       dict_get(test, "compression"))

CompressionOptions(test) ==
    {k \in 1..Len(DatasetOptions(test)) : DatasetOptions(test)[k][1] = "compression="}

\* the element of the compression list the i-th record was generated from
CompressionOf(a, i) ==
    LET names == ListNames(a)
        inner == ProductOfLengths(a, SubSeq(names, 3, Len(names)))
    IN a.compression[(((i - 1) \div inner) % Len(a.compression)) + 1]

\* C38: every record generated from the compression value 'off' carries
\* compression = null, every other compression value is carried through
\* unchanged, and a record with null compression leads to the dataset being
\* created without any compression option.
C38_CompressionOffIsNoOption ==
    \A i \in 1..Len(pass1) :
        LET c == CompressionOf(mxArgs, i) IN
        /\ c = PyStr("off") => pass1[i].compression = None
        /\ c # PyStr("off") =>
              /\ pass1[i].compression = c
              /\ \E k \in CompressionOptions(pass1[i]) :
                    DatasetOptions(pass1[i])[k] = <<"compression=", c[2]>>
        /\ pass1[i].compression = None => CompressionOptions(pass1[i]) = {}

C38_Witness ==
    /\ Pass1Complete
    /\ \E i, j \in 1..Len(pass1) :
          /\ CompressionOf(mxArgs, i) = PyStr("off")
          /\ pass1[i].compression = None
          /\ CompressionOptions(pass1[i]) = {}
          /\ pass1[j].compression = PyStr("zstd")
          /\ CompressionOptions(pass1[j]) # {}

=============================================================================
